---- MODULE Spec2Model ----
(***************************************************************************)
(* A model of the staff task-reporting portal: the session cookie, the     *)
(* staff, task and daily-report route handlers and the rows they keep.     *)
(* Every handler is a process that runs in a request slot; each awaited    *)
(* data-store call is one step, so two requests interleave between their   *)
(* store calls exactly as two concurrent HTTP requests do.                 *)
(***************************************************************************)
EXTENDS Integers, FiniteSets, Sequences, TLC

(* ------------------------------ bounds --------------------------------- *)

\* Clock ticks in one day (24 hours). 00:00 is tick 0 of a day, 12:00 is tick
\* DayLen \div 2 and 23:59:59.999 is tick DayLen - 1.
DayLen == 3
\* AUTOINCREMENT ids the model lets the tables hand out.
MaxReportId == 2
MaxTaskId == 3
MaxUserId == 5
\* Instants (milliseconds) in one clock tick. The handlers read the clock in
\* ticks; a Date is an instant, and the iat and exp of a token are whole
\* ticks (the seconds of a NumericDate).
TickLen == 2

\* Calendar days a request may name: yesterday and today. The clock starts at
\* the last tick of day 1 (UTC), which is the last tick of the 24-hour window
\* of day 0 there, and runs for one tick more.
Days == {0, 1}
FirstNow == 2 * DayLen - 1
MaxNow == FirstNow + 1
\* The server's offset from UTC, in ticks (the process's TZ): a zone west of
\* Greenwich, where UTC midnight falls on the previous local day, and UTC.
TZs == {-1, 0}
Reqs == {1, 2}
Browsers == {"b0", "b1", "b2", "b3"}

\* null for an object (a session, a token, a row, a body); undefined for a
\* string field a request leaves out, and null for one it sends as null; the
\* null of the position column.
Null == [null |-> TRUE]
Undefined == "(undefined)"
JsonNull == "(json null)"
NoPosition == "(null)"
Idle == [op |-> "idle"]
\* Requests the task view of a browser may have in flight at once.
MaxFetch == 3
Fetches == 1..MaxFetch
\* The dashboard before TaskTable has rendered.
Unmounted == [mounted |-> FALSE]

(* ------------------------------ values --------------------------------- *)

\* A date string of a request: absent, "YYYY-MM-DD" (read as UTC midnight) or
\* "YYYY-MM-DDTHH:mm" (read as local time).
NoDate == [kind |-> "none"]
DateOnly(d) == [kind |-> "date", day |-> d]
DateTime(d, t) == [kind |-> "datetime", day |-> d, tod |-> t]
DayDates == {DateOnly(d) : d \in Days}
DateInputs == {NoDate} \cup DayDates \cup {DateTime(1, DayLen - 1)}

\* Request bodies of POST and PUT /api/tasks, and of POST and PUT /api/staff.
TaskCreateBodies ==
    {[taskName |-> "Write copy", plan |-> "5", result |-> Undefined],
     [taskName |-> "Write copy", plan |-> Undefined, result |-> "done"],
     [taskName |-> "", plan |-> "5", result |-> Undefined],
     [taskName |-> Undefined, plan |-> Undefined, result |-> Undefined]}
NullableTaskBodies ==
    TaskCreateBodies \cup
    {[taskName |-> "Write copy", plan |-> JsonNull, result |-> ""],
     [taskName |-> JsonNull, plan |-> "5", result |-> "done"]}
TaskUpdateBodies ==
    {[taskName |-> Undefined, plan |-> "7", result |-> Undefined],
     [taskName |-> Undefined, plan |-> Undefined, result |-> "done"],
     [taskName |-> "Edit copy", plan |-> Undefined, result |-> Undefined]}
StaffBodies ==
    {[username |-> "anna_cw", password |-> "cw123", position |-> "content_writer"],
     [username |-> "john_pm", password |-> Undefined, position |-> "media_buyer"],
     [username |-> "", password |-> "cw123", position |-> "content_writer"]}
TaskIds == 1..MaxTaskId
UserIds == 1..MaxUserId

VARIABLES now, tz, users, nextUserId, tasks, nextTaskId, reports, nextReportId,
          cookie, req, last, view, fetches

vars == <<now, tz, users, nextUserId, tasks, nextTaskId, reports, nextReportId,
          cookie, req, last, view, fetches>>

(* ------------------------------- dates --------------------------------- *)

\* new Date(dateStr): the instant a date string names.
ParseDate(s) ==
    IF s.kind = "date" THEN s.day * DayLen
    ELSE s.day * DayLen + s.tod - tz

\* d.setHours(0, 0, 0, 0): midnight of the local day of instant t.
StartOfDay(t) == ((t + tz) \div DayLen) * DayLen - tz
\* d.setHours(23, 59, 59, 999)
EndOfDay(t) == StartOfDay(t) + (DayLen - 1)
\* The instant left as parsed, not moved to noon.
Noon_AsParsed(t) == t

\* d.setHours(12, 0, 0, 0)
Noon(t) == StartOfDay(t) + (DayLen \div 2)

getDateRange(s) == [start |-> StartOfDay(ParseDate(s)), end |-> EndOfDay(ParseDate(s))]

\* deadline.setHours(deadline.getHours() + 24) on the end of the selected day.
Deadline(s) == EndOfDay(ParseDate(s)) + DayLen

\* A window of two days instead of one.
DeadlinePassed_TwoDays(s, t) == t > Deadline(s) + DayLen

DeadlinePassed(s, t) == t > Deadline(s)

(* ------------------------------ session -------------------------------- *)

\* The first instant of tick t, and epoch(date): the tick of instant i.
Instant(t) == t * TickLen
Epoch(i) == i \div TickLen

\* A Date, and what JSON.stringify leaves of it in the payload of a token:
\* the string of toISOString().
Date(i) == [type |-> "Date", time |-> i]
ToJSON(v) == IF v.type = "Date" THEN [type |-> "string", iso |-> v.time] ELSE v

\* The signing key of the server (JWT_SECRET) and the HS256 signature of a
\* header and claims under a key: no two inputs share a signature.
key == "JWT_SECRET"
Sign(k, header, claims) == [k |-> k, header |-> header, claims |-> claims]

\* A compact JWS: the header, the claims, the signature, and the two bits of
\* the signature's last base64url character that carry no data (0 as written
\* by the encoder).
Token(header, claims, signature, spare) ==
    [header |-> header, claims |-> claims, signature |-> signature, spare |-> spare]

\* encrypt at instant i: the claims are the payload as JSON with iat and exp
\* (one day after iat) added, signed with the key.
encrypt(payload, i) ==
    LET claims == [userId |-> payload.userId, username |-> payload.username,
                   role |-> payload.role, expiresAt |-> ToJSON(payload.expiresAt),
                   iat |-> Epoch(i), exp |-> Epoch(i) + DayLen] IN
    Token("HS256", claims, Sign(key, "HS256", claims), 0)

\* The claims read without verification, as decodeJwt does.
Verifies_Unverified(token, i) == "claims" \in DOMAIN token

\* jwtVerify at instant i: three parts, the HS256 header, the signature of
\* header and claims under the key (the spare bits are dropped by the
\* base64url decoder), exp not reached.
Verifies(token, i) ==
    /\ "claims" \in DOMAIN token
    /\ token.header = "HS256"
    /\ token.signature = Sign(key, token.header, token.claims)
    /\ Epoch(i) < token.claims.exp

\* jwtVerify returns the claims of a token that verifies and throws for any
\* other.
Thrown == [thrown |-> TRUE]
jwtVerify(token, i) == IF Verifies(token, i) THEN token.claims ELSE Thrown

\* A decrypt that also looks the session's user up in the user table.
decrypt_ChecksUser(token, i) ==
    IF token = Null THEN Null
    ELSE LET payload == jwtVerify(token, i) IN
         IF payload = Thrown THEN Null
         ELSE IF \E u \in users : u.id = payload.userId /\ u.username = payload.username
         THEN payload
         ELSE Null

\* decrypt without its try and catch: what jwtVerify throws goes on to the
\* caller.
decrypt_NoCatch(token, i) ==
    IF token = Null THEN Null ELSE jwtVerify(token, i)

\* decrypt: null for no token; the claims of a token that verifies at instant
\* i; null when jwtVerify throws.
decrypt(token, i) ==
    IF token = Null THEN Null
    ELSE LET payload == jwtVerify(token, i) IN
         IF payload = Thrown THEN Null ELSE payload

\* Every instant of a tick lies in the same second: the first stands for all.
getSession(b) == decrypt(cookie[b], Instant(now))

(* ------------------------------- store --------------------------------- *)

UserById(id) == {u \in users : u.id = id}

\* The count without its userId filter.
TasksInRange_AnyUser(uid, range) ==
    {t \in tasks : t.date >= range.start /\ t.date <= range.end}

\* prisma.task.count / findMany with userId and date in [start, end].
TasksInRange(uid, range) ==
    {t \in tasks : t.userId = uid /\ t.date >= range.start /\ t.date <= range.end}

ReportsInRange(uid, range) ==
    {r \in reports : r.userId = uid /\ r.date >= range.start /\ r.date <= range.end}

\* findFirst without its userId filter.
FindFirstReport_AnyUser(uid, range) ==
    LET m == {r \in reports : r.date >= range.start /\ r.date <= range.end} IN
    IF m = {} THEN Null
    ELSE CHOOSE r \in m : \A q \in m : r.id <= q.id

\* prisma.dailyReport.findFirst: the first matching row (lowest id), or null.
FindFirstReport(uid, range) ==
    LET m == ReportsInRange(uid, range) IN
    IF m = {} THEN Null
    ELSE CHOOSE r \in m : \A q \in m : r.id <= q.id

\* No unique index on the table.
UniqueViolation_NoIndex(date, uid) == FALSE

\* The unique index DailyReport_date_userId_key rejects a second row with the
\* same (date, userId).
UniqueViolation(date, uid) ==
    \E r \in reports : r.date = date /\ r.userId = uid

\* NextResponse.json(body, {status}): the response the latest step sent, and
\* to whom; NoResponse after a step that sent none. The body is kept for the
\* list requests only; a written row is read in its table.
Response(b, op, status, error, body) ==
    [by |-> b, op |-> op, status |-> status, error |-> error, body |-> body]

NoResponse == Response("", "none", 0, "", Null)

\* A request that goes on to a second step takes the first free slot; one
\* that is answered in its first step holds none, and is counted once, as if
\* sent through the first slot.
FreeSlot(r) == req[r] = Idle /\ \A q \in Reqs : q < r => req[q] # Idle

Answer(r, resp) ==
    /\ \A q \in Reqs : r <= q
    /\ req' = req
    /\ last' = resp

Finish(r, resp) ==
    /\ req' = [req EXCEPT ![r] = Idle]
    /\ last' = resp

(* ------------------------------- clock --------------------------------- *)

Tick ==
    /\ now < MaxNow
    /\ now' = now + 1
    /\ UNCHANGED <<tz, view, fetches, users, nextUserId, tasks, nextTaskId, reports, nextReportId, cookie, req>>
    /\ last' = NoResponse

(* ------------------------------- login --------------------------------- *)

\* Lines 36-37: the token createSession issues at instant i.
TokenOf(u, i) ==
    encrypt([userId |-> u.id, username |-> u.username, role |-> u.role,
             expiresAt |-> Date(i + Instant(DayLen))], i)

\* A createSession that sets the cookie only when the browser holds none.
createSession_KeepsPrior(b, u) ==
    /\ u \in users
    /\ \E i \in Instant(now)..(Instant(now + 1) - 1) :
          cookie' = [cookie EXCEPT ![b] = IF @ = Null THEN TokenOf(u, i) ELSE @]
    /\ UNCHANGED <<now, tz, view, fetches, users, nextUserId, tasks, nextTaskId, reports, nextReportId, req>>
    /\ last' = NoResponse

\* createSession(userId, username, role), called by the login route for a user
\* whose credentials matched, at some instant of the current tick: the cookie
\* is overwritten.
createSession(b, u) ==
    /\ u \in users
    /\ \E i \in Instant(now)..(Instant(now + 1) - 1) :
          cookie' = [cookie EXCEPT ![b] = TokenOf(u, i)]
    /\ UNCHANGED <<now, tz, view, fetches, users, nextUserId, tasks, nextTaskId, reports, nextReportId, req>>
    /\ last' = NoResponse

\* deleteSession(): the cookie is removed, present or not.
deleteSession(b) ==
    /\ cookie' = [cookie EXCEPT ![b] = Null]
    /\ UNCHANGED <<now, tz, view, fetches, users, nextUserId, tasks, nextTaskId, reports, nextReportId, req>>
    /\ last' = NoResponse

\* The session cookie is what the client sends. Altered(token): the token with
\* a byte of one part changed: another alg in the header, another role,
\* userId or exp in the claims, another signature, other spare bits in the
\* signature's last character. Forged(u, i): strings made without the key:
\* not a JWS at all, an unsigned token, a token signed with a guessed key.
Altered(token) ==
    IF token = Null \/ "claims" \notin DOMAIN token THEN {}
    ELSE ({Token(h, token.claims, token.signature, token.spare) : h \in {"none", "HS512"}}
          \cup {Token(token.header, c, token.signature, token.spare) :
                   c \in {[token.claims EXCEPT !.role = "admin"],
                          [token.claims EXCEPT !.userId = 1],
                          [token.claims EXCEPT !.exp = @ + DayLen]}}
          \cup {Token(token.header, token.claims,
                      Sign("guess", token.header, token.claims), token.spare)}
          \cup {Token(token.header, token.claims, token.signature, spare) :
                   spare \in 0..3})
         \ {token}

Forged(u, i) ==
    LET claims == encrypt([userId |-> u.id, username |-> u.username, role |-> u.role,
                           expiresAt |-> Date(i + Instant(DayLen))], i).claims IN
    {[malformed |-> TRUE],
     Token("none", claims, [empty |-> TRUE], 0),
     Token("HS256", claims, Sign("guess", "HS256", claims), 0)}

PresentCookie(b, token) ==
    /\ cookie' = [cookie EXCEPT ![b] = token]
    /\ UNCHANGED <<now, tz, view, fetches, users, nextUserId, tasks, nextTaskId, reports, nextReportId, req>>
    /\ last' = NoResponse

\* The dashboard page: no session redirects to /login; otherwise the page is
\* rendered from the session's username and role and the position the user
\* table holds for the session's userId (null when the row is gone).
DashboardPage(b) ==
    /\ LET session == getSession(b) IN
       IF session = Null
       THEN last' = Response(b, "dashboard", 307, "", Null)
       ELSE LET user == UserById(session.userId) IN
            last' = Response(b, "dashboard", 200, "",
                       [username |-> session.username, role |-> session.role,
                        position |-> IF user = {} THEN NoPosition
                                     ELSE (CHOOSE u \in user : TRUE).position,
                        displayNumber |-> IF session.role = "admin" THEN 1 ELSE 2])
    /\ UNCHANGED <<now, tz, view, fetches, users, nextUserId, tasks, nextTaskId, reports, nextReportId,
                   cookie, req>>

(* --------------------------- POST /api/reports ------------------------- *)

\* An update that sets submitted and leaves submittedAt as it was.
UpdateReport_KeepsSubmittedAt(ids, t) ==
    {IF r.id \in ids THEN [r EXCEPT !.submitted = TRUE] ELSE r : r \in reports}

\* prisma.dailyReport.update({where: {id}, data: {submitted, submittedAt}})
UpdateReport(ids, t) ==
    {IF r.id \in ids THEN [r EXCEPT !.submitted = TRUE, !.submittedAt = t] ELSE r : r \in reports}

\* A create that leaves submitted and submittedAt to the table's defaults.
NewReport_Defaults(id, date, uid, t) ==
    [id |-> id, date |-> date, userId |-> uid, submitted |-> FALSE, submittedAt |-> Null,
     createdAt |-> t]

\* prisma.dailyReport.create({data: {date, userId, submitted, submittedAt}});
\* createdAt defaults to the time of the insert.
NewReport(id, date, uid, t) ==
    [id |-> id, date |-> date, userId |-> uid, submitted |-> TRUE, submittedAt |-> t,
     createdAt |-> t]

\* Lines 96-149: session, date, the 24-hour window, the task count, the
\* report date (noon of the day) and the findFirst of the caller's report in
\* the day's range. The count reads only tasks and the findFirst only reports:
\* the two reads are taken as one step, which is exact as long as no task of
\* the caller is written between them.
SubmitStart(r, b, date) ==
    /\ LET session == getSession(b) IN
       IF session = Null
       THEN Answer(r, Response(b, "submit", 401, "Unauthorized", Null))
       ELSE IF date = NoDate
       THEN Answer(r, Response(b, "submit", 400, "DateRequired", Null))
       ELSE IF DeadlinePassed(date, now)
       THEN Answer(r, Response(b, "submit", 400, "DeadlinePassed", Null))
       ELSE IF Cardinality(TasksInRange(session.userId, getDateRange(date))) = 0
       THEN Answer(r, Response(b, "submit", 400, "NoTasksToSubmit", Null))
       ELSE LET existingReport == FindFirstReport(session.userId, getDateRange(date)) IN
            /\ FreeSlot(r)
            /\ req' = [req EXCEPT ![r] =
                   [op |-> "submit", pc |-> "write", by |-> b, uid |-> session.userId,
                    reportDate |-> Noon(ParseDate(date)),
                    existing |-> IF existingReport = Null THEN {} ELSE {existingReport.id}]]
            /\ last' = NoResponse
    /\ UNCHANGED <<now, tz, view, fetches, users, nextUserId, tasks, nextTaskId, reports, nextReportId, cookie>>

\* Lines 151-177: update the row found, or create one at noon of the day; a
\* store error (the row is gone, the unique index refuses) is caught as 500.
\* The migration declares no foreign key on userId while the client includes
\* the report's user: for a user who is gone the create is refused (500) if
\* the store enforces the relation, and inserts the row if it does not.
SubmitWrite(r) ==
    /\ req[r].op = "submit" /\ req[r].pc = "write"
    /\ LET b == req[r].by
           uid == req[r].uid
           reportDate == req[r].reportDate IN
       IF req[r].existing # {}
       THEN IF \E q \in reports : q.id \in req[r].existing
            THEN /\ reports' = UpdateReport(req[r].existing, now)
                 /\ Finish(r, Response(b, "submit", 201, "", Null))
                 /\ UNCHANGED nextReportId
            ELSE /\ Finish(r, Response(b, "submit", 500, "Failed", Null))
                 /\ UNCHANGED <<reports, nextReportId>>
       ELSE IF UniqueViolation(reportDate, uid)
            THEN /\ Finish(r, Response(b, "submit", 500, "Failed", Null))
                 /\ UNCHANGED <<reports, nextReportId>>
            ELSE \/ /\ UserById(uid) = {}
                    /\ Finish(r, Response(b, "submit", 500, "Failed", Null))
                    /\ UNCHANGED <<reports, nextReportId>>
                 \/ /\ nextReportId <= MaxReportId
                    /\ reports' = reports \cup {NewReport(nextReportId, reportDate, uid, now)}
                    /\ nextReportId' = nextReportId + 1
                    /\ Finish(r, Response(b, "submit", 201, "", Null))
    /\ UNCHANGED <<now, tz, view, fetches, users, nextUserId, tasks, nextTaskId, cookie>>

(* -------------------------- DELETE /api/reports ------------------------ *)

\* A withdrawal held to the window of Submit.
WithdrawStart_ChecksDeadline(r, b, date) ==
    /\ LET session == getSession(b) IN
       IF session = Null
       THEN Answer(r, Response(b, "withdraw", 401, "Unauthorized", Null))
       ELSE IF date = NoDate
       THEN Answer(r, Response(b, "withdraw", 400, "DateRequired", Null))
       ELSE IF DeadlinePassed(date, now)
       THEN Answer(r, Response(b, "withdraw", 400, "DeadlinePassed", Null))
       ELSE LET report == FindFirstReport(session.userId, getDateRange(date)) IN
            IF report = Null
            THEN Answer(r, Response(b, "withdraw", 404, "NotFound", Null))
            ELSE /\ FreeSlot(r)
                 /\ req' = [req EXCEPT ![r] = [op |-> "withdraw", pc |-> "delete", by |-> b,
                                               range |-> getDateRange(date),
                                               existing |-> {report.id}]]
                 /\ last' = NoResponse
    /\ UNCHANGED <<now, tz, view, fetches, users, nextUserId, tasks, nextTaskId, reports, nextReportId, cookie>>

\* Lines 183-210: session, date, findFirst of the caller's report in the
\* day's range.
WithdrawStart(r, b, date) ==
    /\ LET session == getSession(b) IN
       IF session = Null
       THEN Answer(r, Response(b, "withdraw", 401, "Unauthorized", Null))
       ELSE IF date = NoDate
       THEN Answer(r, Response(b, "withdraw", 400, "DateRequired", Null))
       ELSE LET report == FindFirstReport(session.userId, getDateRange(date)) IN
            IF report = Null
            THEN Answer(r, Response(b, "withdraw", 404, "NotFound", Null))
            ELSE /\ FreeSlot(r)
                 /\ req' = [req EXCEPT ![r] = [op |-> "withdraw", pc |-> "delete", by |-> b,
                                               range |-> getDateRange(date),
                                               existing |-> {report.id}]]
                 /\ last' = NoResponse
    /\ UNCHANGED <<now, tz, view, fetches, users, nextUserId, tasks, nextTaskId, reports, nextReportId, cookie>>

\* A withdrawal that keeps the row, marked as not submitted.
WithdrawDelete_KeepsRow(r) ==
    /\ req[r].op = "withdraw" /\ req[r].pc = "delete"
    /\ IF \E q \in reports : q.id \in req[r].existing
       THEN /\ reports' = {IF q.id \in req[r].existing THEN [q EXCEPT !.submitted = FALSE]
                           ELSE q : q \in reports}
            /\ Finish(r, Response(req[r].by, "withdraw", 200, "", Null))
       ELSE /\ Finish(r, Response(req[r].by, "withdraw", 500, "Failed", Null))
            /\ UNCHANGED reports
    /\ UNCHANGED <<now, tz, view, fetches, users, nextUserId, tasks, nextTaskId, nextReportId, cookie>>

\* A withdrawal that deletes by the day's range, whoever the row belongs to.
WithdrawDelete_WholeDay(r) ==
    /\ req[r].op = "withdraw" /\ req[r].pc = "delete"
    /\ IF \E q \in reports : q.id \in req[r].existing
       THEN /\ reports' = {q \in reports : q.date < req[r].range.start \/ q.date > req[r].range.end}
            /\ Finish(r, Response(req[r].by, "withdraw", 200, "", Null))
       ELSE /\ Finish(r, Response(req[r].by, "withdraw", 500, "Failed", Null))
            /\ UNCHANGED reports
    /\ UNCHANGED <<now, tz, view, fetches, users, nextUserId, tasks, nextTaskId, nextReportId, cookie>>

\* Lines 213-221: delete by id; a row already gone is caught as 500.
WithdrawDelete(r) ==
    /\ req[r].op = "withdraw" /\ req[r].pc = "delete"
    /\ IF \E q \in reports : q.id \in req[r].existing
       THEN /\ reports' = {q \in reports : q.id \notin req[r].existing}
            /\ Finish(r, Response(req[r].by, "withdraw", 200, "", Null))
       ELSE /\ Finish(r, Response(req[r].by, "withdraw", 500, "Failed", Null))
            /\ UNCHANGED reports
    /\ UNCHANGED <<now, tz, view, fetches, users, nextUserId, tasks, nextTaskId, nextReportId, cookie>>

(* ----------------------------- /api/tasks ------------------------------ *)

\* plan ?? "": null is replaced only where the field is left out.
OrEmpty_PassesNull(v) == IF v = Undefined THEN "" ELSE v

\* plan || "": undefined, null and the empty string all give "".
OrEmpty(v) == IF v \in {Undefined, JsonNull, ""} THEN "" ELSE v

\* !taskName: undefined, null or the empty string.
Missing(v) == v \in {Undefined, JsonNull, ""}

NewTask(id, date, taskName, plan, result, uid) ==
    [id |-> id, date |-> date, taskName |-> taskName, plan |-> OrEmpty(plan),
     result |-> OrEmpty(result), userId |-> uid]

\* A task row whose owner is not looked up by the store.
OwnerExists_Unchecked(uid) == TRUE

\* Task.userId is required and refers to a User: the store accepts a task
\* row only for an owner who exists.
OwnerExists(uid) == UserById(uid) # {}

\* POST /api/tasks: one store call. The row refers to its user, so the store
\* refuses it (caught as 500) when the session's user is gone.
CreateTask(b, date, taskName, plan, result) ==
    /\ LET session == getSession(b) IN
       IF session = Null
       THEN /\ last' = Response(b, "createTask", 401, "Unauthorized", Null)
            /\ UNCHANGED <<tasks, nextTaskId>>
       ELSE IF Missing(taskName)
       THEN /\ last' = Response(b, "createTask", 400, "TaskNameRequired", Null)
            /\ UNCHANGED <<tasks, nextTaskId>>
       ELSE IF ~OwnerExists(session.userId)
       THEN /\ last' = Response(b, "createTask", 500, "Failed", Null)
            /\ UNCHANGED <<tasks, nextTaskId>>
       ELSE LET task == NewTask(nextTaskId, IF date = NoDate THEN now ELSE ParseDate(date),
                                taskName, plan, result, session.userId) IN
            /\ nextTaskId <= MaxTaskId
            /\ tasks' = tasks \cup {task}
            /\ nextTaskId' = nextTaskId + 1
            /\ last' = Response(b, "createTask", 201, "", Null)
    /\ UNCHANGED <<now, tz, view, fetches, users, nextUserId, reports, nextReportId, cookie, req>>

\* No ownership rule.
MayMutateTask_Anyone(session, task) == TRUE

\* The ownership rule of PUT and DELETE /api/tasks/[id].
MayMutateTask(session, task) ==
    session.role = "admin" \/ task.userId = session.userId

\* data of prisma.task.update: a field that is undefined keeps the value read
\* by findUnique.
UpdatedTask(existingTask, taskName, plan, result) ==
    [existingTask EXCEPT
       !.taskName = IF taskName # Undefined THEN taskName ELSE existingTask.taskName,
       !.plan = IF plan # Undefined THEN plan ELSE existingTask.plan,
       !.result = IF result # Undefined THEN result ELSE existingTask.result]

\* PUT /api/tasks/[id], lines 11-32: session, findUnique, ownership. The
\* request keeps the body it was sent and the data it will write, made from
\* the body and the row findUnique returned.
UpdateTaskStart(r, b, id, taskName, plan, result) ==
    /\ LET session == getSession(b)
           found == {t \in tasks : t.id = id} IN
       IF session = Null
       THEN Answer(r, Response(b, "updateTask", 401, "Unauthorized", Null))
       ELSE IF found = {}
       THEN Answer(r, Response(b, "updateTask", 404, "NotFound", Null))
       ELSE LET existingTask == CHOOSE t \in found : TRUE IN
            IF ~MayMutateTask(session, existingTask)
            THEN Answer(r, Response(b, "updateTask", 401, "Unauthorized", Null))
            ELSE /\ FreeSlot(r)
                 /\ req' = [req EXCEPT ![r] =
                       [op |-> "updateTask", pc |-> "update", by |-> b, id |-> id,
                        body |-> [taskName |-> taskName, plan |-> plan, result |-> result],
                        data |-> UpdatedTask(existingTask, taskName, plan, result)]]
                 /\ last' = NoResponse
    /\ UNCHANGED <<now, tz, view, fetches, users, nextUserId, tasks, nextTaskId, reports, nextReportId, cookie>>

\* Lines 34-47: prisma.task.update writes the three fields of the row id; a
\* row already gone is caught as 500.
UpdateTaskWrite(r) ==
    /\ req[r].op = "updateTask" /\ req[r].pc = "update"
    /\ IF \E t \in tasks : t.id = req[r].id
       THEN LET old == CHOOSE t \in tasks : t.id = req[r].id
                new == [old EXCEPT !.taskName = req[r].data.taskName,
                                   !.plan = req[r].data.plan,
                                   !.result = req[r].data.result] IN
            /\ tasks' = (tasks \ {old}) \cup {new}
            /\ Finish(r, Response(req[r].by, "updateTask", 200, "", Null))
       ELSE /\ Finish(r, Response(req[r].by, "updateTask", 500, "Failed", Null))
            /\ UNCHANGED tasks
    /\ UNCHANGED <<now, tz, view, fetches, users, nextUserId, nextTaskId, reports, nextReportId, cookie>>

\* The handler with the ownership test ahead of the existence test: for a
\* caller who is not an admin, reading userId of the null row throws, which
\* the catch answers as 500.
DeleteTaskStart_OwnershipFirst(r, b, id) ==
    /\ LET session == getSession(b)
           found == {t \in tasks : t.id = id} IN
       IF session = Null
       THEN Answer(r, Response(b, "deleteTask", 401, "Unauthorized", Null))
       ELSE IF session.role # "admin" /\ found = {}
       THEN Answer(r, Response(b, "deleteTask", 500, "Failed", Null))
       ELSE IF found # {} /\ ~MayMutateTask(session, CHOOSE t \in found : TRUE)
       THEN Answer(r, Response(b, "deleteTask", 401, "Unauthorized", Null))
       ELSE IF found = {}
       THEN Answer(r, Response(b, "deleteTask", 404, "NotFound", Null))
       ELSE /\ FreeSlot(r)
            /\ req' = [req EXCEPT ![r] =
                  [op |-> "deleteTask", pc |-> "delete", by |-> b, id |-> id]]
            /\ last' = NoResponse
    /\ UNCHANGED <<now, tz, view, fetches, users, nextUserId, tasks, nextTaskId, reports, nextReportId, cookie>>

\* A delete refused for a task whose day the owner has reported.
DeleteTaskStart_LockedByReport(r, b, id) ==
    /\ LET session == getSession(b)
           found == {t \in tasks : t.id = id} IN
       IF session = Null
       THEN Answer(r, Response(b, "deleteTask", 401, "Unauthorized", Null))
       ELSE IF found = {}
       THEN Answer(r, Response(b, "deleteTask", 404, "NotFound", Null))
       ELSE IF ~MayMutateTask(session, CHOOSE t \in found : TRUE)
       THEN Answer(r, Response(b, "deleteTask", 401, "Unauthorized", Null))
       ELSE IF \E t \in found, p \in reports :
                  p.userId = t.userId /\ StartOfDay(p.date) = StartOfDay(t.date)
       THEN Answer(r, Response(b, "deleteTask", 400, "Submitted", Null))
       ELSE /\ FreeSlot(r)
            /\ req' = [req EXCEPT ![r] =
                  [op |-> "deleteTask", pc |-> "delete", by |-> b, id |-> id]]
            /\ last' = NoResponse
    /\ UNCHANGED <<now, tz, view, fetches, users, nextUserId, tasks, nextTaskId, reports, nextReportId, cookie>>

\* DELETE /api/tasks/[id], lines 56-76.
DeleteTaskStart(r, b, id) ==
    /\ LET session == getSession(b)
           found == {t \in tasks : t.id = id} IN
       IF session = Null
       THEN Answer(r, Response(b, "deleteTask", 401, "Unauthorized", Null))
       ELSE IF found = {}
       THEN Answer(r, Response(b, "deleteTask", 404, "NotFound", Null))
       ELSE IF ~MayMutateTask(session, CHOOSE t \in found : TRUE)
       THEN Answer(r, Response(b, "deleteTask", 401, "Unauthorized", Null))
       ELSE /\ FreeSlot(r)
            /\ req' = [req EXCEPT ![r] =
                  [op |-> "deleteTask", pc |-> "delete", by |-> b, id |-> id]]
            /\ last' = NoResponse
    /\ UNCHANGED <<now, tz, view, fetches, users, nextUserId, tasks, nextTaskId, reports, nextReportId, cookie>>

\* Lines 78-86.
DeleteTaskWrite(r) ==
    /\ req[r].op = "deleteTask" /\ req[r].pc = "delete"
    /\ IF \E t \in tasks : t.id = req[r].id
       THEN /\ tasks' = {t \in tasks : t.id # req[r].id}
            /\ Finish(r, Response(req[r].by, "deleteTask", 200, "", Null))
       ELSE /\ Finish(r, Response(req[r].by, "deleteTask", 500, "Failed", Null))
            /\ UNCHANGED tasks
    /\ UNCHANGED <<now, tz, view, fetches, users, nextUserId, nextTaskId, reports, nextReportId, cookie>>

\* orderBy: the rows of a set of <<key, row>> pairs by ascending key, rows of
\* equal key in id order.
RECURSIVE Ascending(_)
Ascending(P) ==
    IF P = {} THEN <<>>
    ELSE LET x == CHOOSE y \in P : \A z \in P :
                     y[1] < z[1] \/ (y[1] = z[1] /\ y[2].id <= z[2].id)
         IN <<x[2]>> \o Ascending(P \ {x})

\* The userId parameter is honoured for any role.
TaskWhere_AnyoneMayAsk(session, date, userId) ==
    {t \in tasks :
        /\ IF userId # {} THEN t.userId \in userId
           ELSE IF session.role = "staff" THEN t.userId = session.userId
           ELSE TRUE
        /\ date # NoDate =>
             (t.date >= ParseDate(date) /\ t.date < ParseDate(date) + DayLen)}

\* GET /api/tasks?date&userId: the where clause and the rows in creation order.
\* userId is a set: empty when the parameter is absent.
TaskWhere(session, date, userId) ==
    {t \in tasks :
        /\ IF session.role = "admin" /\ userId # {} THEN t.userId \in userId
           ELSE IF session.role = "staff" THEN t.userId = session.userId
           ELSE TRUE
        /\ date # NoDate =>
             (t.date >= ParseDate(date) /\ t.date < ParseDate(date) + DayLen)}

TaskList(b, date, userId) ==
    LET session == getSession(b) IN
    IF session = Null
    THEN Response(b, "listTasks", 401, "Unauthorized", Null)
    ELSE Response(b, "listTasks", 200, "",
                  Ascending({<<t.id, t>> : t \in TaskWhere(session, date, userId)}))

ListTasks(b, date, userId) ==
    /\ last' = TaskList(b, date, userId)
    /\ UNCHANGED <<now, tz, view, fetches, users, nextUserId, tasks, nextTaskId, reports, nextReportId, cookie, req>>

(* ------------------------------ /api/staff ----------------------------- *)

\* Any session passes for an admin's.
IsAdmin_AnySession(session) == session # Null

IsAdmin(session) == session # Null /\ session.role = "admin"

\* select: {id, username, role, position}
UserSummary(u) ==
    [id |-> u.id, username |-> u.username, role |-> u.role, position |-> u.position]

\* bcrypt.hash(password, 10): opaque and one-way.
Hash(password) == [hash |-> password]

\* GET /api/staff
ListStaff(b) ==
    /\ IF ~IsAdmin(getSession(b))
       THEN last' = Response(b, "listStaff", 401, "Unauthorized", Null)
       ELSE last' = Response(b, "listStaff", 200, "",
                      Ascending({<<u.id, UserSummary(u)>> :
                                    u \in {v \in users : v.role = "staff"}}))
    /\ UNCHANGED <<now, tz, view, fetches, users, nextUserId, tasks, nextTaskId, reports, nextReportId, cookie, req>>

NewStaff(id, username, password, position) ==
    [id |-> id, username |-> username, password |-> Hash(password), role |-> "staff",
     position |-> position]

\* POST /api/staff, lines 36-61: session, required fields, findUnique by name.
CreateStaffStart(r, b, username, password, position) ==
    /\ IF ~IsAdmin(getSession(b))
       THEN Answer(r, Response(b, "createStaff", 401, "Unauthorized", Null))
       ELSE IF Missing(username) \/ Missing(password) \/ Missing(position)
       THEN Answer(r, Response(b, "createStaff", 400, "FieldsRequired", Null))
       ELSE IF \E u \in users : u.username = username
       THEN Answer(r, Response(b, "createStaff", 400, "UsernameExists", Null))
       ELSE /\ FreeSlot(r)
            /\ req' = [req EXCEPT ![r] =
                  [op |-> "createStaff", pc |-> "create", by |-> b, username |-> username,
                   password |-> password, position |-> position]]
            /\ last' = NoResponse
    /\ UNCHANGED <<now, tz, view, fetches, users, nextUserId, tasks, nextTaskId, reports, nextReportId, cookie>>

\* The create on a table without the unique index on username.
CreateStaffWrite_NoIndex(r) ==
    /\ req[r].op = "createStaff" /\ req[r].pc = "create"
    /\ LET newStaff == NewStaff(nextUserId, req[r].username, req[r].password,
                                req[r].position) IN
       /\ nextUserId <= MaxUserId
       /\ users' = users \cup {newStaff}
       /\ nextUserId' = nextUserId + 1
       /\ Finish(r, Response(req[r].by, "createStaff", 201, "", Null))
    /\ UNCHANGED <<now, tz, view, fetches, tasks, nextTaskId, reports, nextReportId, cookie>>

\* prisma.user.create: the unique index on username refuses a duplicate, which
\* the handler catches as 500.
CreateStaffWrite(r) ==
    /\ req[r].op = "createStaff" /\ req[r].pc = "create"
    /\ IF \E u \in users : u.username = req[r].username
       THEN /\ Finish(r, Response(req[r].by, "createStaff", 500, "Failed", Null))
            /\ UNCHANGED <<users, nextUserId>>
       ELSE LET newStaff == NewStaff(nextUserId, req[r].username, req[r].password,
                                     req[r].position) IN
            /\ nextUserId <= MaxUserId
            /\ users' = users \cup {newStaff}
            /\ nextUserId' = nextUserId + 1
            /\ Finish(r, Response(req[r].by, "createStaff", 201, "", Null))
    /\ UNCHANGED <<now, tz, view, fetches, tasks, nextTaskId, reports, nextReportId, cookie>>

\* The update with the target looked up by id alone, whatever its role.
UpdateStaffStart_AnyRole(r, b, id, username, password, position) ==
    /\ IF ~IsAdmin(getSession(b))
       THEN Answer(r, Response(b, "updateStaff", 401, "Unauthorized", Null))
       ELSE IF Missing(username) \/ Missing(position)
       THEN Answer(r, Response(b, "updateStaff", 400, "FieldsRequired", Null))
       ELSE IF ~\E u \in users : u.id = id
       THEN Answer(r, Response(b, "updateStaff", 404, "NotFound", Null))
       ELSE IF \E u \in users : u.username = username /\ u.id # id
       THEN Answer(r, Response(b, "updateStaff", 400, "UsernameExists", Null))
       ELSE /\ FreeSlot(r)
            /\ req' = [req EXCEPT ![r] =
                  [op |-> "updateStaff", pc |-> "update", by |-> b, id |-> id,
                   username |-> username, password |-> password, position |-> position]]
            /\ last' = NoResponse
    /\ UNCHANGED <<now, tz, view, fetches, users, nextUserId, tasks, nextTaskId, reports, nextReportId, cookie>>

\* PUT /api/staff/[id], lines 12-54: session, required fields, the target is
\* a staff user, the name is not another user's.
UpdateStaffStart(r, b, id, username, password, position) ==
    /\ IF ~IsAdmin(getSession(b))
       THEN Answer(r, Response(b, "updateStaff", 401, "Unauthorized", Null))
       ELSE IF Missing(username) \/ Missing(position)
       THEN Answer(r, Response(b, "updateStaff", 400, "FieldsRequired", Null))
       ELSE IF ~\E u \in users : u.id = id /\ u.role = "staff"
       THEN Answer(r, Response(b, "updateStaff", 404, "NotFound", Null))
       ELSE IF \E u \in users : u.username = username /\ u.id # id
       THEN Answer(r, Response(b, "updateStaff", 400, "UsernameExists", Null))
       ELSE /\ FreeSlot(r)
            /\ req' = [req EXCEPT ![r] =
                  [op |-> "updateStaff", pc |-> "update", by |-> b, id |-> id,
                   username |-> username, password |-> password, position |-> position]]
            /\ last' = NoResponse
    /\ UNCHANGED <<now, tz, view, fetches, users, nextUserId, tasks, nextTaskId, reports, nextReportId, cookie>>

\* updateData: username and position always, password only when given.
UpdatedStaff(u, username, password, position) ==
    [u EXCEPT !.username = username, !.position = position,
              !.password = IF Missing(password) THEN u.password ELSE Hash(password)]

\* Lines 56-79: prisma.user.update by id.
UpdateStaffWrite(r) ==
    /\ req[r].op = "updateStaff" /\ req[r].pc = "update"
    /\ IF \/ ~\E u \in users : u.id = req[r].id
          \/ \E u \in users : u.username = req[r].username /\ u.id # req[r].id
       THEN /\ Finish(r, Response(req[r].by, "updateStaff", 500, "Failed", Null))
            /\ UNCHANGED users
       ELSE LET old == CHOOSE u \in users : u.id = req[r].id
                new == UpdatedStaff(old, req[r].username, req[r].password, req[r].position) IN
            /\ users' = (users \ {old}) \cup {new}
            /\ Finish(r, Response(req[r].by, "updateStaff", 200, "", Null))
    /\ UNCHANGED <<now, tz, view, fetches, nextUserId, tasks, nextTaskId, reports, nextReportId, cookie>>

\* DELETE /api/staff/[id], lines 88-107.
DeleteStaffStart(r, b, id) ==
    /\ IF ~IsAdmin(getSession(b))
       THEN Answer(r, Response(b, "deleteStaff", 401, "Unauthorized", Null))
       ELSE IF ~\E u \in users : u.id = id /\ u.role = "staff"
       THEN Answer(r, Response(b, "deleteStaff", 404, "NotFound", Null))
       ELSE /\ FreeSlot(r)
            /\ req' = [req EXCEPT ![r] =
                  [op |-> "deleteStaff", pc |-> "delete", by |-> b, id |-> id]]
            /\ last' = NoResponse
    /\ UNCHANGED <<now, tz, view, fetches, users, nextUserId, tasks, nextTaskId, reports, nextReportId, cookie>>

\* The task rows left by the delete of user id: the user's rows go with the
\* user.
TasksWithoutUser(id) == {t \in tasks : t.userId # id}

\* Lines 109-117: prisma.user.delete by id. The referential action of Task
\* and DailyReport on their user is set by the schema: the delete either takes
\* the user's rows with it (Cascade) or is refused while rows refer to the
\* user (Restrict) and caught as 500; the user's reports, on which the
\* migration declares no foreign key, may also be left behind.
DeleteStaffWrite(r) ==
    /\ req[r].op = "deleteStaff" /\ req[r].pc = "delete"
    /\ LET id == req[r].id
           referred == (\E t \in tasks : t.userId = id) \/ (\E q \in reports : q.userId = id) IN
       \/ /\ \E u \in users : u.id = id
          /\ users' = {u \in users : u.id # id}
          /\ tasks' = TasksWithoutUser(id)
          /\ reports' \in {{q \in reports : q.userId # id}, reports}
          /\ Finish(r, Response(req[r].by, "deleteStaff", 200, "", Null))
       \/ /\ (~\E u \in users : u.id = id) \/ referred
          /\ Finish(r, Response(req[r].by, "deleteStaff", 500, "Failed", Null))
          /\ UNCHANGED <<users, tasks, reports>>
    /\ UNCHANGED <<now, tz, view, fetches, nextUserId, nextTaskId, nextReportId, cookie>>

(* --------------------------- GET /api/reports -------------------------- *)

InDay(t, range) == t >= range.start /\ t <= range.end

\* The admin's rows: every report (of the day, when a date is given) with its
\* user and that user's tasks of the report's day, latest submission first.
AdminReports(date) ==
    Ascending({<<0 - q.submittedAt,
                 [id |-> q.id, date |-> q.date, userId |-> q.userId,
                  submitted |-> q.submitted, submittedAt |-> q.submittedAt,
                  createdAt |-> q.createdAt,
                  user |-> {[id |-> u.id, username |-> u.username, position |-> u.position] :
                            u \in UserById(q.userId)},
                  tasks |-> TasksInRange(q.userId,
                               [start |-> StartOfDay(q.date), end |-> EndOfDay(q.date)])]>> :
               q \in {x \in reports : date # NoDate => InDay(x.date, getDateRange(date))}})

\* The rows of every user, latest date first.
StaffReports_AnyUser(uid, date) ==
    Ascending({<<0 - q.date, q>> :
               q \in {x \in reports : date # NoDate => InDay(x.date, getDateRange(date))}})

\* The staff member's rows: the caller's reports, latest date first.
StaffReports(uid, date) ==
    Ascending({<<0 - q.date, q>> :
               q \in {x \in reports : /\ x.userId = uid
                                      /\ date # NoDate => InDay(x.date, getDateRange(date))}})

ReportList(b, date) ==
    LET session == getSession(b) IN
    IF session = Null
    THEN Response(b, "listReports", 401, "Unauthorized", Null)
    ELSE IF session.role = "admin"
    THEN Response(b, "listReports", 200, "", AdminReports(date))
    ELSE Response(b, "listReports", 200, "", StaffReports(session.userId, date))

\* The handler without its session check: reading session.role of null
\* throws, which the catch answers as 500.
ListReports_NoSessionCheck(b, date) ==
    /\ LET session == getSession(b) IN
       IF session = Null
       THEN last' = Response(b, "listReports", 500, "Failed", Null)
       ELSE IF session.role = "admin"
       THEN last' = Response(b, "listReports", 200, "", AdminReports(date))
       ELSE last' = Response(b, "listReports", 200, "", StaffReports(session.userId, date))
    /\ UNCHANGED <<now, tz, view, fetches, users, nextUserId, tasks, nextTaskId, reports, nextReportId,
                   cookie, req>>

ListReports(b, date) ==
    /\ last' = ReportList(b, date)
    /\ UNCHANGED <<now, tz, view, fetches, users, nextUserId, tasks, nextTaskId, reports, nextReportId,
                   cookie, req>>

(* ------------------------ dashboard/TaskTable.tsx ----------------------- *)

\* The staff member's browser: DashboardClient renders TaskTable for a role
\* other than admin.
Viewer == "b2"

\* JSON.stringify of a Date column in a response: the string of
\* toISOString(), "YYYY-MM-DDTHH:mm:ss.sssZ", the instant in UTC.
toISOString(t) == [kind |-> "iso", day |-> t \div DayLen, tod |-> t % DayLen, zone |-> "Z"]

\* Lines 24-27: today.toISOString().split("T")[0], the part before the "T".
Today == DateOnly(toISOString(now).day)

\* A fetch on its way to the server, with the selectedDate of the render
\* that called it.
Sent(op, date) == [op |-> op, pc |-> "sent", date |-> date, response |-> NoResponse]

\* Lines 89-92: the effect of a render with a new selectedDate calls
\* fetchTasks and then checkReportStatus; each sends its request at once.
Effect(date) ==
    \E i, j \in Fetches :
        /\ i < j
        /\ fetches[i] = Idle /\ fetches[j] = Idle
        /\ \A k \in Fetches : (k < j /\ k # i) => fetches[k] # Idle
        /\ fetches' = [fetches EXCEPT ![i] = Sent("fetchTasks", date),
                                      ![j] = Sent("checkReportStatus", date)]

\* Lines 21-40, 89-92: the first render, for a staff member who is logged in.
Mount ==
    /\ view = Unmounted
    /\ getSession(Viewer) # Null /\ getSession(Viewer).role # "admin"
    /\ view' = [mounted |-> TRUE, selectedDate |-> Today, tasks |-> <<>>,
                isSubmitted |-> FALSE]
    /\ Effect(Today)
    /\ last' = NoResponse
    /\ UNCHANGED <<now, tz, users, nextUserId, tasks, nextTaskId, reports, nextReportId, cookie, req>>

\* Lines 229-234: the date input; a value equal to the state renders nothing.
SelectDate(date) ==
    /\ view # Unmounted
    /\ date # view.selectedDate
    /\ view' = [view EXCEPT !.selectedDate = date]
    /\ Effect(date)
    /\ last' = NoResponse
    /\ UNCHANGED <<now, tz, users, nextUserId, tasks, nextTaskId, reports, nextReportId, cookie, req>>

\* The server answers the GET of a fetch: /api/tasks?date= or
\* /api/reports?date= with the browser's cookie.
Serve(i) ==
    /\ fetches[i] # Idle /\ fetches[i].pc = "sent"
    /\ last' = IF fetches[i].op = "fetchTasks" THEN TaskList(Viewer, fetches[i].date, {})
               ELSE ReportList(Viewer, fetches[i].date)
    /\ fetches' = [fetches EXCEPT ![i] = [@ EXCEPT !.pc = "answered", !.response = last']]
    /\ UNCHANGED <<now, tz, view, users, nextUserId, tasks, nextTaskId, reports, nextReportId, cookie, req>>

\* response.ok: a status from 200 to 299.
Ok(response) == response.status >= 200 /\ response.status <= 299

\* Line 81: reports.some(r => r.date === selectedDate && r.submitted), on the
\* rows as the JSON of the response carries them.
SomeSubmitted(rows, selectedDate) ==
    \E k \in DOMAIN rows : toISOString(rows[k].date) = selectedDate /\ rows[k].submitted

\* Lines 65-68 and 79-83: the rest of fetchTasks or checkReportStatus once its
\* response is there; a response that is not ok sets nothing.
Settle(i) ==
    /\ fetches[i] # Idle /\ fetches[i].pc = "answered"
    /\ LET f == fetches[i] IN
       view' = IF ~Ok(f.response) THEN view
               ELSE IF f.op = "fetchTasks" THEN [view EXCEPT !.tasks = f.response.body]
               ELSE [view EXCEPT !.isSubmitted = SomeSubmitted(f.response.body, f.date)]
    /\ fetches' = [fetches EXCEPT ![i] = Idle]
    /\ last' = NoResponse
    /\ UNCHANGED <<now, tz, users, nextUserId, tasks, nextTaskId, reports, nextReportId, cookie, req>>

ViewNext(D) ==
    \/ Mount
    \/ \E date \in D : SelectDate(date)
    \/ \E i \in Fetches : Serve(i)
    \/ \E i \in Fetches : Settle(i)

(* ------------------------------ the system ----------------------------- *)

\* The database after the seed script, nobody logged in, no request in flight.
SeedUsers ==
    {[id |-> 1, username |-> "admin", password |-> Hash("admin123"), role |-> "admin",
      position |-> NoPosition],
     [id |-> 2, username |-> "john_pm", password |-> Hash("pm123"), role |-> "staff",
      position |-> "project_manager"],
     [id |-> 3, username |-> "sarah_mb", password |-> Hash("mb123"), role |-> "staff",
      position |-> "media_buyer"],
     [id |-> 4, username |-> "mike_gd", password |-> Hash("gd123"), role |-> "staff",
      position |-> "graphic_design"]}

Init ==
    /\ now = FirstNow
    /\ tz \in TZs
    /\ users = SeedUsers
    /\ nextUserId = Cardinality(SeedUsers) + 1
    /\ tasks = {}
    /\ nextTaskId = 1
    /\ reports = {}
    /\ nextReportId = 1
    /\ cookie = [b \in Browsers |-> Null]
    /\ req = [r \in Reqs |-> Idle]
    /\ last = NoResponse
    /\ view = Unmounted
    /\ fetches = [f \in Fetches |-> Idle]

SessionNext(B) ==
    \E b \in B :
        \/ \E u \in users : createSession(b, u)
        \/ deleteSession(b)

ReportNext(R, B, D) ==
    \/ \E r \in R, b \in B, date \in D : SubmitStart(r, b, date)
    \/ \E r \in R : SubmitWrite(r)
    \/ \E r \in R, b \in B, date \in D : WithdrawStart(r, b, date)
    \/ \E r \in R : WithdrawDelete(r)

ReportListNext(B, D) ==
    \E b \in B, date \in D : ListReports(b, date)

TaskCreateNext(B, D, bodies) ==
    \E b \in B, date \in D, body \in bodies :
        CreateTask(b, date, body.taskName, body.plan, body.result)

TaskChangeNext(R, B, ids, bodies) ==
    \/ \E r \in R, b \in B, id \in ids, body \in bodies :
          UpdateTaskStart(r, b, id, body.taskName, body.plan, body.result)
    \/ \E r \in R : UpdateTaskWrite(r)
    \/ \E r \in R, b \in B, id \in ids : DeleteTaskStart(r, b, id)
    \/ \E r \in R : DeleteTaskWrite(r)

TaskListNext(B, D, ids) ==
    \E b \in B, date \in D, userId \in {{}} \cup {{u} : u \in ids} :
        ListTasks(b, date, userId)

StaffNext(R, B, ids, bodies) ==
    \/ \E b \in B : ListStaff(b)
    \/ \E r \in R, b \in B, body \in bodies :
          CreateStaffStart(r, b, body.username, body.password, body.position)
    \/ \E r \in R : CreateStaffWrite(r)
    \/ \E r \in R, b \in B, id \in ids, body \in bodies :
          UpdateStaffStart(r, b, id, body.username, body.password, body.position)
    \/ \E r \in R : UpdateStaffWrite(r)
    \/ \E r \in R, b \in B, id \in ids : DeleteStaffStart(r, b, id)
    \/ \E r \in R : DeleteStaffWrite(r)

\* The whole portal: every handler, every browser, every request body.
Next ==
    \/ Tick
    \/ SessionNext(Browsers)
    \/ ReportNext(Reqs, Browsers, DateInputs)
    \/ ReportListNext(Browsers, DateInputs)
    \/ TaskCreateNext(Browsers, DateInputs, TaskCreateBodies)
    \/ TaskChangeNext(Reqs, Browsers, TaskIds, TaskUpdateBodies)
    \/ TaskListNext(Browsers, DateInputs, UserIds)
    \/ StaffNext(Reqs, Browsers, UserIds, StaffBodies)

Spec == Init /\ [][Next]_vars

\* The portal once the admin (b1) and john_pm (b2) have logged in at FirstNow;
\* sarah_mb (b3) logged in a day earlier, so that her token has just expired;
\* b0 holds no cookie.
LoggedIn ==
    [b \in Browsers |->
        IF b = "b0" THEN Null
        ELSE TokenOf(CHOOSE u \in SeedUsers :
                        u.id = (CASE b = "b1" -> 1 [] b = "b2" -> 2 [] OTHER -> 3),
                     Instant(IF b = "b3" THEN FirstNow - DayLen ELSE FirstNow))]

\* Daily reports. john_pm has logged a task for day 0, the admin one for day 1
\* and john_pm one for day 1 (POST /api/tasks at FirstNow); then the two submit and
\* withdraw, two requests at a time, while the clock runs past the deadline
\* of day 0.
LoggedTasks ==
    {NewTask(1, ParseDate(DateOnly(0)), "Write copy", "5", Undefined, 2),
     NewTask(2, ParseDate(DateOnly(1)), "Write copy", "5", Undefined, 1),
     NewTask(3, ParseDate(DateOnly(1)), "Write copy", "5", Undefined, 2)}

InitReports ==
    /\ now = FirstNow
    /\ tz \in TZs
    /\ users = SeedUsers
    /\ nextUserId = Cardinality(SeedUsers) + 1
    /\ tasks = LoggedTasks
    /\ nextTaskId = Cardinality(LoggedTasks) + 1
    /\ reports = {}
    /\ nextReportId = 1
    /\ cookie = LoggedIn
    /\ req = [r \in Reqs |-> Idle]
    /\ last = NoResponse
    /\ view = Unmounted
    /\ fetches = [f \in Fetches |-> Idle]

ReportsNext ==
    \/ Tick
    \/ ReportNext(Reqs, {"b1", "b2"}, DateInputs)

SpecReports == InitReports /\ [][ReportsNext]_vars

\* Access control, on a server running in UTC at FirstNow; john_pm and the
\* admin have logged one task each. A browser without a cookie (b0), the
\* admin (b1) and sarah_mb with her expired token (b3) send every request of
\* the portal; one request at a time goes on to a second step.
AccessDates == {DateOnly(1)}
AccessTaskBodies == {[taskName |-> "Edit copy", plan |-> Undefined, result |-> Undefined]}
AccessStaffBodies ==
    {[username |-> "anna_cw", password |-> "cw123", position |-> "content_writer"]}

InitAccess ==
    /\ now = FirstNow
    /\ tz = 0
    /\ users = SeedUsers
    /\ nextUserId = Cardinality(SeedUsers) + 1
    /\ tasks = {t \in LoggedTasks : t.id < MaxTaskId}
    /\ nextTaskId = MaxTaskId
    /\ reports = {}
    /\ nextReportId = 1
    /\ cookie = LoggedIn
    /\ req = [r \in Reqs |-> Idle]
    /\ last = NoResponse
    /\ view = Unmounted
    /\ fetches = [f \in Fetches |-> Idle]

AccessNext ==
    \/ ReportNext({1}, {"b0", "b1", "b3"}, AccessDates)
    \/ ReportListNext({"b0", "b1", "b3"}, AccessDates)
    \/ TaskCreateNext({"b0", "b1", "b3"}, AccessDates, AccessTaskBodies)
    \/ TaskChangeNext({1}, {"b0", "b1", "b3"}, {1}, AccessTaskBodies)
    \/ TaskListNext({"b0", "b1", "b3"}, AccessDates, {})
    \/ StaffNext({1}, {"b0", "b1", "b3"}, {3}, AccessStaffBodies)

SpecAccess == InitAccess /\ [][AccessNext]_vars

\* The staff table: the admin (b1) and john_pm (b2) send the staff requests.
StaffOnlyNext == StaffNext(Reqs, {"b1", "b2"}, UserIds, AccessStaffBodies)

SpecStaff == InitAccess /\ [][StaffOnlyNext]_vars

\* The task table: the admin and john_pm create, change, delete and list
\* tasks, john_pm's and the admin's.
TasksOnlyNext ==
    \/ TaskCreateNext({"b1", "b2"}, AccessDates, AccessTaskBodies)
    \/ TaskChangeNext(Reqs, {"b1", "b2"}, TaskIds, AccessTaskBodies)
    \/ TaskListNext({"b1", "b2"}, AccessDates, {})

SpecTasks == InitAccess /\ [][TasksOnlyNext]_vars

\* Sessions: from a day before FirstNow on, the admin and john_pm log in and
\* out of two browsers and open the dashboard while the clock runs.
InitSession ==
    /\ now = FirstNow - DayLen
    /\ tz = 0
    /\ users = SeedUsers
    /\ nextUserId = Cardinality(SeedUsers) + 1
    /\ tasks = {}
    /\ nextTaskId = 1
    /\ reports = {}
    /\ nextReportId = 1
    /\ cookie = [b \in Browsers |-> Null]
    /\ req = [r \in Reqs |-> Idle]
    /\ last = NoResponse
    /\ view = Unmounted
    /\ fetches = [f \in Fetches |-> Idle]

SessionOnlyNext ==
    \/ Tick
    \/ \E b \in {"b1", "b2"}, u \in {v \in users : v.id <= 2} : createSession(b, u)
    \/ \E b \in {"b1", "b2"} : deleteSession(b)
    \/ \E b \in {"b1", "b2"} : DashboardPage(b)

SpecSession == InitSession /\ [][SessionOnlyNext]_vars

\* Tampering: the admin and john_pm log in and out of browser b1 and open the
\* dashboard; a client without the key (b0) sends altered copies of b1's
\* cookie and strings of its own making, and opens the dashboard.
TamperNext ==
    \/ Tick
    \/ \E u \in {v \in users : v.id <= 2} : createSession("b1", u)
    \/ deleteSession("b1")
    \/ \E token \in Altered(cookie["b1"]) : PresentCookie("b0", token)
    \/ \E u \in {v \in users : v.id <= 2} :
          \E token \in Forged(u, Instant(now)) : PresentCookie("b0", token)
    \/ \E b \in {"b0", "b1"} : DashboardPage(b)

SpecTamper == InitSession /\ [][TamperNext]_vars

\* Bad cookies: on the server of InitAccess a client (b0) sends no cookie,
\* altered copies of the admin's token, sarah_mb's expired token or strings
\* of its own making, and with each every request of the portal.
DecodeNext ==
    \/ \E token \in Altered(cookie["b1"]) \cup {cookie["b3"]} : PresentCookie("b0", token)
    \/ \E u \in {v \in users : v.id = 2} :
          \E token \in Forged(u, Instant(now)) : PresentCookie("b0", token)
    \/ deleteSession("b0")
    \/ DashboardPage("b0")
    \/ ReportNext({1}, {"b0"}, AccessDates)
    \/ ReportListNext({"b0"}, AccessDates)
    \/ TaskCreateNext({"b0"}, AccessDates, AccessTaskBodies)
    \/ TaskChangeNext({1}, {"b0"}, {1}, AccessTaskBodies)
    \/ TaskListNext({"b0"}, AccessDates, {})
    \/ StaffNext({1}, {"b0"}, {3}, AccessStaffBodies)

SpecDecode == InitAccess /\ [][DecodeNext]_vars

\* Revocation: the admin is logged in on b1 and john_pm logs in on b2; a copy
\* of b2's cookie is kept by another client (b0); then john_pm logs out and
\* in again, the admin renames or deletes john_pm's row, and the clock runs
\* while the client with the copy opens the dashboard.
InitRevoke ==
    /\ now = FirstNow - DayLen
    /\ tz = 0
    /\ users = SeedUsers
    /\ nextUserId = Cardinality(SeedUsers) + 1
    /\ tasks = {}
    /\ nextTaskId = 1
    /\ reports = {}
    /\ nextReportId = 1
    /\ cookie = [b \in Browsers |->
                   IF b = "b1"
                   THEN TokenOf(CHOOSE u \in SeedUsers : u.id = 1, Instant(FirstNow - DayLen))
                   ELSE Null]
    /\ req = [r \in Reqs |-> Idle]
    /\ last = NoResponse
    /\ view = Unmounted
    /\ fetches = [f \in Fetches |-> Idle]

RevokeNext ==
    \/ Tick
    \/ \E u \in {v \in users : v.id = 2} : createSession("b2", u)
    \/ deleteSession("b2")
    \/ PresentCookie("b0", cookie["b2"])
    \/ DashboardPage("b0")
    \/ \E body \in AccessStaffBodies :
          UpdateStaffStart(1, "b1", 2, body.username, body.password, body.position)
    \/ UpdateStaffWrite(1)
    \/ DeleteStaffStart(1, "b1", 2)
    \/ DeleteStaffWrite(1)

SpecRevoke == InitRevoke /\ [][RevokeNext]_vars

\* Task creation on an empty table: a visitor without a session, the admin
\* and john_pm post every kind of body.
InitCreate ==
    /\ now = FirstNow
    /\ tz = 0
    /\ users = SeedUsers
    /\ nextUserId = Cardinality(SeedUsers) + 1
    /\ tasks = {}
    /\ nextTaskId = 1
    /\ reports = {}
    /\ nextReportId = 1
    /\ cookie = LoggedIn
    /\ req = [r \in Reqs |-> Idle]
    /\ last = NoResponse
    /\ view = Unmounted
    /\ fetches = [f \in Fetches |-> Idle]

CreateNext == TaskCreateNext({"b0", "b1", "b2"}, AccessDates, NullableTaskBodies)

SpecCreate == InitCreate /\ [][CreateNext]_vars

\* Task lists: the admin and john_pm fill an empty table with tasks of two
\* days and list it, with and without a date, for no user, for either of
\* them and for a user without tasks.
ListDates == {NoDate, DateOnly(1)}
ListUserIds == {1, 2, 3}

ListNext ==
    \/ TaskCreateNext({"b1", "b2"}, DayDates, AccessTaskBodies)
    \/ TaskListNext({"b1", "b2"}, ListDates, ListUserIds)

SpecList == InitCreate /\ [][ListNext]_vars

\* Task updates: the admin and john_pm change and delete john_pm's task,
\* each request naming one of the three fields, two requests at a time.
UpdateNext == TaskChangeNext(Reqs, {"b1", "b2"}, {1}, TaskUpdateBodies)

SpecUpdate == InitAccess /\ [][UpdateNext]_vars

\* Report lists: on a server in UTC the admin and john_pm submit and withdraw
\* for both days, one request at a time, and list the reports with and
\* without a date while the clock runs.
InitReportList ==
    /\ now = FirstNow
    /\ tz = 0
    /\ users = SeedUsers
    /\ nextUserId = Cardinality(SeedUsers) + 1
    /\ tasks = LoggedTasks
    /\ nextTaskId = Cardinality(LoggedTasks) + 1
    /\ reports = {}
    /\ nextReportId = 1
    /\ cookie = LoggedIn
    /\ req = [r \in Reqs |-> Idle]
    /\ last = NoResponse
    /\ view = Unmounted
    /\ fetches = [f \in Fetches |-> Idle]

ReportListDates == {NoDate, DateOnly(1)}

ReportListOnlyNext ==
    \/ Tick
    \/ ReportNext({1}, {"b1", "b2"}, DayDates)
    \/ ReportListNext({"b1", "b2"}, ReportListDates)

SpecReportList == InitReportList /\ [][ReportListOnlyNext]_vars

\* Owners: the admin creates, renames and deletes staff (john_pm and
\* sarah_mb among them) while the admin and john_pm, whose token outlives his
\* row, create tasks and delete them.
OwnersNext ==
    \/ TaskCreateNext({"b1", "b2"}, AccessDates, AccessTaskBodies)
    \/ TaskChangeNext({2}, {"b1", "b2"}, {1, 2}, AccessTaskBodies)
    \/ StaffNext({1}, {"b1"}, {2, 3}, AccessStaffBodies)

SpecOwners == InitAccess /\ [][OwnersNext]_vars

\* One pair: on a server in UTC john_pm submits and withdraws his report of
\* day 1, two requests at a time, while the clock runs. Every report id ever
\* given out was given to that pair.
WithdrawNext ==
    \/ Tick
    \/ ReportNext(Reqs, {"b2"}, {DateOnly(1)})

SpecWithdraw == InitReportList /\ [][WithdrawNext]_vars

\* Tasks under a report: on a server in UTC john_pm submits and withdraws his
\* reports of both days while he and the admin change and delete his tasks,
\* one request at a time, and the clock runs past the deadline of day 0.
GateNext ==
    \/ Tick
    \/ ReportNext({1}, {"b2"}, DayDates)
    \/ TaskChangeNext({1}, {"b1", "b2"}, {1, 3}, AccessTaskBodies)

SpecGate == InitReportList /\ [][GateNext]_vars

\* Roles: the admin lists, creates, updates and deletes users, the admin's
\* own row, john_pm's and the next row to be created among the targets,
\* with complete and incomplete bodies.
RolesNext == StaffNext({1}, {"b1"}, {1, 2, 5}, StaffBodies)

SpecRoles == InitAccess /\ [][RolesNext]_vars

\* The task view: on a server in UTC john_pm opens the dashboard and moves
\* between the two days while, from the same session, he submits and
\* withdraws his reports of both days, one request at a time.
ViewOnlyNext ==
    \/ ViewNext(DayDates)
    \/ ReportNext({1}, {Viewer}, DayDates)

SpecView == InitReportList /\ [][ViewOnlyNext]_vars

\* Date changes: on a server in UTC whose tables stay as they are, john_pm
\* opens the dashboard and moves between the two days while requests of the
\* view are in flight.
RaceNext == ViewNext(DayDates)

SpecRace == InitReportList /\ [][RaceNext]_vars

(* ------------------------------- claims -------------------------------- *)

\* The caller of a request sent from browser b, and the rows of one user on
\* the local calendar day of a date string.
Caller(b) == getSession(b).userId
Valid(b, date) == getSession(b) # Null /\ date # NoDate
DayOf(t) == (t + tz) \div DayLen
ReportsOn(uid, date) ==
    {p \in reports : p.userId = uid /\ DayOf(p.date) = DayOf(ParseDate(date))}
TasksOn(uid, date) ==
    {t \in tasks : t.userId = uid /\ DayOf(t.date) = DayOf(ParseDate(date))}
\* What every first step of a request of kind op does: it answers and leaves
\* the slots as they are, or it occupies the free slot r; StartedBy is the
\* browser it answers or records. What every later step does: it answers.
Started(r, op) ==
    \/ last'.op = op /\ req' = req /\ \A q \in Reqs : r <= q
    \/ req[r] = Idle /\ req'[r].op = op
StartedBy(r, op) == IF last'.op = op THEN {last'.by} ELSE {req'[r].by}
Answered(r, op) == req[r].op = op /\ last'.op = op
WithinWindow(date) ==
    now <= DayOf(ParseDate(date)) * DayLen - tz + (DayLen - 1) + DayLen

\* C1: in every reachable state there is at most one DailyReport row per
\* (calendar date, userId) pair, whatever Submit and Withdraw requests ran and
\* however they interleaved.
C1_OneReportPerDayAndUser ==
    \A p, q \in reports :
        (p.userId = q.userId /\ DayOf(p.date) = DayOf(q.date)) => p = q

\* Two rows of one user, on different days, are held at once.
C1_Witness ==
    \E p, q \in reports : p.userId = q.userId /\ DayOf(p.date) # DayOf(q.date)

\* C2: a Submit for a pair that already has a report, before the deadline and
\* with a task for the date, takes the update path; its write answers 201,
\* sets submittedAt to the time of the write, keeps the row's id with
\* submitted = true, changes no other row and leaves exactly one row for the
\* pair (the row not having been withdrawn in between).
C2_ResubmitUpdatesInPlace ==
    [][/\ \A r \in Reqs : Started(r, "submit") =>
          \A b \in StartedBy(r, "submit"), date \in DateInputs :
            (/\ Valid(b, date) /\ WithinWindow(date)
             /\ TasksOn(Caller(b), date) # {}
             /\ ReportsOn(Caller(b), date) # {}
             /\ SubmitStart(r, b, date))
            => /\ req'[r].op = "submit"
               /\ req'[r].existing = {p.id : p \in ReportsOn(Caller(b), date)}
               /\ reports' = reports
       /\ \A r \in Reqs :
            (/\ Answered(r, "submit")
             /\ \E p \in reports : p.id \in req[r].existing
             /\ SubmitWrite(r))
            => LET old == CHOOSE p \in reports : p.id \in req[r].existing IN
               /\ last'.op = "submit" /\ last'.status = 201
               /\ reports' = (reports \ {old}) \cup
                     {[id |-> old.id, date |-> old.date, userId |-> old.userId,
                       submitted |-> TRUE, submittedAt |-> now,
                       createdAt |-> old.createdAt]}
               /\ Cardinality({p \in reports' : p.userId = old.userId
                                                /\ DayOf(p.date) = DayOf(old.date)}) = 1
      ]_vars

\* A resubmission has answered 201: the only row ever created carries a
\* submittedAt later than its createdAt.
C2_Witness ==
    /\ last.op = "submit" /\ last.status = 201
    /\ nextReportId = 2
    /\ \E p \in reports : p.id = 1 /\ p.submittedAt = now /\ p.createdAt < now

\* C3: a Submit (valid session, date given) made when now > endOfDay(date) +
\* 24h answers DeadlinePassed and changes no DailyReport row, whether or not
\* a report exists for the pair.
C3_DeadlinePassedRejects ==
    [][\A r \in Reqs : Started(r, "submit") =>
        \A b \in StartedBy(r, "submit"), date \in DateInputs :
          (Valid(b, date) /\ ~WithinWindow(date) /\ SubmitStart(r, b, date))
          => /\ last'.op = "submit" /\ last'.status = 400
             /\ last'.error = "DeadlinePassed"
             /\ req' = req
             /\ reports' = reports
      ]_vars

\* john_pm's resubmission for day 0 was refused after the deadline: his
\* report for day 0 is still there, with its earlier submittedAt.
C3_Witness ==
    /\ last.op = "submit" /\ last.error = "DeadlinePassed" /\ last.by = "b2"
    /\ \E p \in reports : p.userId = 2 /\ p.date = ParseDate(DateOnly(0)) + DayLen \div 2
                          /\ p.submittedAt < now

\* C4 as stated: a Submit (valid session, date given) by a caller with no task
\* on the date answers NoTasksToSubmit, whatever the clock says, and changes
\* no DailyReport row.
C4_AlwaysNoTasksToSubmit ==
    [][\A r \in Reqs : Started(r, "submit") =>
        \A b \in StartedBy(r, "submit"), date \in DateInputs :
          (Valid(b, date) /\ TasksOn(Caller(b), date) = {} /\ SubmitStart(r, b, date))
          => /\ last'.op = "submit" /\ last'.status = 400
             /\ last'.error = "NoTasksToSubmit"
             /\ reports' = reports
      ]_vars

\* C4, amended: within the 24-hour window a Submit (valid session, date given)
\* by a caller of either role with no task on the date answers 400
\* NoTasksToSubmit; past the window it answers 400 DeadlinePassed, the check
\* that runs first. Either way no DailyReport row is created or modified.
C4_NoTasksRejects ==
    [][\A r \in Reqs : Started(r, "submit") =>
        \A b \in StartedBy(r, "submit"), date \in DateInputs :
          (Valid(b, date) /\ TasksOn(Caller(b), date) = {} /\ SubmitStart(r, b, date))
          => /\ last'.op = "submit" /\ last'.status = 400
             /\ last'.error = IF WithinWindow(date) THEN "NoTasksToSubmit"
                              ELSE "DeadlinePassed"
             /\ req' = req
             /\ reports' = reports
      ]_vars

\* The admin, who logged no task for the day, was refused NoTasksToSubmit
\* while john_pm's report is on file.
C4_Witness ==
    /\ last.op = "submit" /\ last.error = "NoTasksToSubmit" /\ last.by = "b1"
    /\ \E p \in reports : p.userId = 2

\* C5: a Withdraw (valid session, date given) answers 404 NotFound and changes
\* nothing when the caller has no report on the date; when the caller has one
\* it goes on to delete that row, and the delete answers 200, removes exactly
\* that row, and the report query of that user for the date, run in the state
\* the delete leaves, returns no report of that user.
C5_WithdrawRemovesOrNotFound ==
    [][/\ \A r \in Reqs : Started(r, "withdraw") =>
          \A b \in StartedBy(r, "withdraw"), date \in DateInputs :
            (Valid(b, date) /\ WithdrawStart(r, b, date))
            => IF ReportsOn(Caller(b), date) = {}
               THEN /\ last'.op = "withdraw" /\ last'.status = 404
                    /\ last'.error = "NotFound"
                    /\ req' = req
                    /\ UNCHANGED <<users, tasks, reports>>
               ELSE /\ req'[r].op = "withdraw"
                    /\ req'[r].existing = {p.id : p \in ReportsOn(Caller(b), date)}
       /\ \A r \in Reqs :
            (/\ Answered(r, "withdraw")
             /\ \E p \in reports : p.id \in req[r].existing
             /\ WithdrawDelete(r))
            => LET old == CHOOSE p \in reports : p.id \in req[r].existing IN
               /\ last'.status = 200
               /\ reports' = reports \ {old}
               /\ \A uid \in {old.userId}, date \in DateInputs \ {NoDate} :
                    DayOf(ParseDate(date)) = DayOf(old.date)
                    => /\ StaffReports(uid, date)' = <<>>
                       /\ \A i \in DOMAIN AdminReports(date)' :
                            AdminReports(date)'[i].userId # uid
      ]_vars

\* john_pm's withdrawal has answered 200 and he has no report left, while the
\* admin's report of the same day is still there.
C5_Witness ==
    /\ last.op = "withdraw" /\ last.status = 200 /\ last.by = "b2"
    /\ ~\E p \in reports : p.userId = 2
    /\ \E p \in reports : p.userId = 1

\* C6: the create of a Submit that found no report, run when a row for its
\* (date, userId) has been created in between, inserts nothing and is answered
\* as a conflict, not as the generic server error 500.
C6_RaceLoserGetsConflict ==
    [][\A r \in Reqs :
          (/\ Answered(r, "submit")
           /\ req[r].existing = {}
           /\ \E p \in reports : p.userId = req[r].uid /\ p.date = req[r].reportDate
           /\ SubmitWrite(r))
          => /\ reports' = reports
             /\ last'.status # 500
      ]_vars

\* The loser of the race has been answered 500: the winner's row is the only
\* one, created at this very tick.
C6_Witness ==
    /\ last.op = "submit" /\ last.status = 500
    /\ nextReportId = 2
    /\ \E p \in reports : p.id = 1 /\ p.createdAt = now /\ p.submittedAt = now

AllTaskBodies == TaskCreateBodies \cup TaskUpdateBodies
UpdateTaskBy(r, b, id) ==
    \E body \in AllTaskBodies :
        UpdateTaskStart(r, b, id, body.taskName, body.plan, body.result)
StartOps ==
    {"submit", "withdraw", "updateTask", "deleteTask", "createStaff", "updateStaff",
     "deleteStaff"}
StartOf(op, r, b) ==
    CASE op = "submit" -> \E date \in DateInputs : SubmitStart(r, b, date)
      [] op = "withdraw" -> \E date \in DateInputs : WithdrawStart(r, b, date)
      [] op = "updateTask" -> \E id \in TaskIds : UpdateTaskBy(r, b, id)
      [] op = "deleteTask" -> \E id \in TaskIds : DeleteTaskStart(r, b, id)
      [] op = "createStaff" ->
           \E body \in StaffBodies :
               CreateStaffStart(r, b, body.username, body.password, body.position)
      [] op = "updateStaff" ->
           \E id \in UserIds, body \in StaffBodies :
               UpdateStaffStart(r, b, id, body.username, body.password, body.position)
      [] op = "deleteStaff" -> \E id \in UserIds : DeleteStaffStart(r, b, id)
AtomicOps == {"listStaff", "listTasks", "createTask", "listReports"}
AtomicOf(op, b) ==
    CASE op = "listStaff" -> ListStaff(b)
      [] op = "listTasks" ->
           \E date \in DateInputs, userId \in {{}} \cup {{u} : u \in UserIds} :
               ListTasks(b, date, userId)
      [] op = "createTask" ->
           \E date \in DateInputs, body \in AllTaskBodies :
               CreateTask(b, date, body.taskName, body.plan, body.result)
      [] op = "listReports" -> \E date \in DateInputs : ListReports(b, date)
Unauthorized(b, op) == Response(b, op, 401, "Unauthorized", Null)

\* C8: each of the eleven protected requests (staff list, create, update,
\* delete; task list, create, update, delete; report list, submit, withdraw)
\* sent by a browser whose getSession() is null is answered 401 Unauthorized
\* in its first step, which leaves users, tasks, reports and the requests in
\* flight as they are.
C8_NoSessionRejected ==
    [][/\ \A r \in Reqs, op \in StartOps : Started(r, op) =>
          \A b \in StartedBy(r, op) :
            (getSession(b) = Null /\ StartOf(op, r, b))
            => /\ last' = Unauthorized(b, op)
               /\ UNCHANGED <<users, tasks, reports, req>>
       /\ \A op \in AtomicOps : last'.op = op =>
          \A b \in {last'.by} :
            (getSession(b) = Null /\ AtomicOf(op, b))
            => /\ last' = Unauthorized(b, op)
               /\ UNCHANGED <<users, tasks, reports, req>>
      ]_vars

\* sarah_mb's token has expired: her browser still holds the cookie, and its
\* request to list the reports was answered 401 while a report is on file.
C8_Witness ==
    /\ last = Unauthorized("b3", "listReports")
    /\ cookie["b3"] # Null /\ now >= cookie["b3"].claims.exp
    /\ reports # {}

\* C9: a staff list, create, update or delete sent with a valid session whose
\* role is not admin is answered 401 Unauthorized in its first step, and the
\* user table is left as it is.
C9_NonAdminRejected ==
    [][/\ \A r \in Reqs, op \in {"createStaff", "updateStaff", "deleteStaff"} :
          Started(r, op) =>
          \A b \in StartedBy(r, op) :
            (/\ getSession(b) # Null /\ getSession(b).role # "admin"
             /\ StartOf(op, r, b))
            => /\ last' = Unauthorized(b, op)
               /\ UNCHANGED <<users, req>>
       /\ last'.op = "listStaff" =>
          \A b \in {last'.by} :
            (/\ getSession(b) # Null /\ getSession(b).role # "admin"
             /\ ListStaff(b))
            => /\ last' = Unauthorized(b, "listStaff")
               /\ UNCHANGED <<users, req>>
      ]_vars

\* john_pm, logged in, was refused the deletion of a staff user after the
\* admin had added anna_cw.
C9_Witness ==
    /\ last = Unauthorized("b2", "deleteStaff")
    /\ getSession("b2") # Null
    /\ \E u \in users : u.username = "anna_cw"

\* C10: an update or delete of an existing Task sent with a valid session is
\* answered 401 Unauthorized, the task table left as it is, when the session
\* is not an admin's and the task's userId is not the session's; otherwise
\* (an admin, or the owner) it goes on to the write, which, the row still
\* being there, answers 200 and rewrites the three fields of that row, or
\* removes that row, and touches no other.
C10_TaskOwnership ==
    [][/\ \A r \in Reqs, op \in {"updateTask", "deleteTask"} : Started(r, op) =>
          \A b \in StartedBy(r, op), t \in tasks :
            (/\ getSession(b) # Null
             /\ IF op = "updateTask" THEN UpdateTaskBy(r, b, t.id)
                ELSE DeleteTaskStart(r, b, t.id))
            => IF /\ getSession(b).role # "admin"
                  /\ t.userId # getSession(b).userId
               THEN /\ last' = Unauthorized(b, op)
                    /\ UNCHANGED <<tasks, req>>
               ELSE /\ req'[r].op = op /\ req'[r].by = b /\ req'[r].id = t.id
                    /\ UNCHANGED tasks
       /\ \A r \in Reqs, t \in tasks :
            (Answered(r, "updateTask") /\ req[r].id = t.id /\ UpdateTaskWrite(r))
            => /\ last'.status = 200
               /\ tasks' = (tasks \ {t}) \cup
                     {[id |-> t.id, date |-> t.date, userId |-> t.userId,
                       taskName |-> req[r].data.taskName, plan |-> req[r].data.plan,
                       result |-> req[r].data.result]}
       /\ \A r \in Reqs, t \in tasks :
            (Answered(r, "deleteTask") /\ req[r].id = t.id /\ DeleteTaskWrite(r))
            => /\ last'.status = 200
               /\ tasks' = tasks \ {t}
      ]_vars

\* john_pm, logged in, was refused the deletion of the admin's task, after
\* his own task had been renamed and a third task created and deleted again.
C10_Witness ==
    /\ last = Unauthorized("b2", "deleteTask")
    /\ getSession("b2") # Null
    /\ \E t \in tasks : t.userId = 2 /\ t.taskName = "Edit copy"
    /\ nextTaskId > MaxTaskId /\ Cardinality(tasks) = MaxTaskId - 1

\* C11: an update or delete of a task id that no row carries, sent with a
\* valid session (an admin's, the former owner's or another user's), is
\* answered 404 NotFound in its first step, never 401 Unauthorized, and leaves
\* the task table and the requests in flight as they are.
C11_MissingTaskIsNotFound ==
    [][\A r \in Reqs, op \in {"updateTask", "deleteTask"} : Started(r, op) =>
        \A b \in StartedBy(r, op), id \in TaskIds :
          (/\ getSession(b) # Null
           /\ ~\E t \in tasks : t.id = id
           /\ IF op = "updateTask" THEN UpdateTaskBy(r, b, id)
              ELSE DeleteTaskStart(r, b, id))
          => /\ last' = Response(b, op, 404, "NotFound", Null)
             /\ UNCHANGED <<tasks, req>>
      ]_vars

\* john_pm, logged in, asked to delete a task after every task, his own and
\* the admin's, had been deleted: he was answered 404.
C11_Witness ==
    /\ last = Response("b2", "deleteTask", 404, "NotFound", Null)
    /\ getSession("b2") # Null /\ getSession("b2").role = "staff"
    /\ tasks = {} /\ nextTaskId > MaxTaskId

\* C12: no two rows of the user table carry the same username, in any state,
\* however the staff requests interleave; and an admin's create (all fields
\* given) whose username some user holds, or an admin's rename of a staff
\* user to a username another user holds, is answered 400 in its first step
\* and leaves the user table and the requests in flight as they are.
C12_UsernamesStayDistinct ==
    /\ [](\A u, v \in users : u.username = v.username => u = v)
    /\ [][/\ \A r \in Reqs : Started(r, "createStaff") =>
             \A b \in StartedBy(r, "createStaff"), body \in StaffBodies :
               (/\ IsAdmin(getSession(b))
                /\ ~Missing(body.username) /\ ~Missing(body.password)
                /\ ~Missing(body.position)
                /\ \E u \in users : u.username = body.username
                /\ CreateStaffStart(r, b, body.username, body.password, body.position))
               => /\ last' = Response(b, "createStaff", 400, "UsernameExists", Null)
                  /\ UNCHANGED <<users, nextUserId, req>>
          /\ \A r \in Reqs : Started(r, "updateStaff") =>
             \A b \in StartedBy(r, "updateStaff"), id \in UserIds, body \in StaffBodies :
               (/\ IsAdmin(getSession(b))
                /\ ~Missing(body.username) /\ ~Missing(body.position)
                /\ \E u \in users : u.id = id /\ u.role = "staff"
                /\ \E u \in users : u.username = body.username /\ u.id # id
                /\ UpdateStaffStart(r, b, id, body.username, body.password, body.position))
               => /\ last' = Response(b, "updateStaff", 400, "UsernameExists", Null)
                  /\ UNCHANGED <<users, nextUserId, req>>
         ]_vars

\* The admin's rename of a seeded staff user to anna_cw was refused with 400
\* after anna_cw had been created: the seeded users carry their names still.
C12_Witness ==
    /\ last = Response("b1", "updateStaff", 400, "UsernameExists", Null)
    /\ \E u \in users : u.username = "anna_cw" /\ u.id = Cardinality(SeedUsers) + 1
    /\ SeedUsers \subseteq users

\* The payload createSession hands to encrypt at instant i, and the instants
\* of the current tick.
SessionOf(u, i) ==
    [userId |-> u.id, username |-> u.username, role |-> u.role,
     expiresAt |-> Date(i + Instant(DayLen))]
Instants == Instant(now)..(Instant(now + 1) - 1)
IssueInstants == 0..(Instant(now + 1) - 1)

\* C13: for a cookie that holds encrypt(session) of a session createSession
\* made, decrypt at an instant before session.expiresAt gives back the
\* session (userId, username, role, expiresAt), and at an instant after it
\* gives null.
C13_RoundTripUntilExpiresAt ==
    \A b \in Browsers, u \in users, i \in IssueInstants :
        cookie[b] = encrypt(SessionOf(u, i), i) =>
            \A j \in Instants :
                /\ j < SessionOf(u, i).expiresAt.time
                     => decrypt(cookie[b], j) = SessionOf(u, i)
                /\ j > SessionOf(u, i).expiresAt.time
                     => decrypt(cookie[b], j) = Null

\* The admin's token verifies, and what decrypt returns for it carries the
\* session's userId, username and role but is not the session: expiresAt is
\* a string. A token issued in the second instant of a tick has stopped
\* verifying one day of ticks later, at an instant before its expiresAt, and
\* the dashboard has redirected its holder to the login page.
C13_Witness ==
    /\ last = Response("b2", "dashboard", 307, "", Null)
    /\ \E u \in users, i \in IssueInstants :
          /\ cookie["b1"] = encrypt(SessionOf(u, i), i)
          /\ getSession("b1") # Null /\ getSession("b1") # SessionOf(u, i)
          /\ getSession("b1").userId = u.id /\ getSession("b1").username = u.username
          /\ getSession("b1").role = "admin"
          /\ getSession("b1").expiresAt = [type |-> "string", iso |-> i + Instant(DayLen)]
    /\ \E u \in users :
          /\ cookie["b2"] = encrypt(SessionOf(u, Instant(now - DayLen) + 1),
                                    Instant(now - DayLen) + 1)
          /\ Instant(now) < SessionOf(u, Instant(now - DayLen) + 1).expiresAt.time
          /\ decrypt(cookie["b2"], Instant(now)) = Null

\* The tokens encrypt has produced, or could have, for a session of a user
\* up to now.
Issued == {encrypt(SessionOf(u, i), i) : u \in users, i \in IssueInstants}
SameParts(s, t) ==
    /\ "claims" \in DOMAIN s /\ "claims" \in DOMAIN t
    /\ s.header = t.header /\ s.claims = t.claims /\ s.signature = t.signature

\* C14 as stated: a cookie that is not a token encrypt produced (a token of
\* encrypt with any byte altered, or a string made without the key) decodes
\* to null.
C14_NotIssuedIsNull ==
    \A b \in Browsers :
        (cookie[b] # Null /\ cookie[b] \notin Issued) => getSession(b) = Null

\* C14, amended: a cookie whose header, claims or signature differ from those
\* of every token encrypt produced decodes to null; a token of encrypt in
\* which only the spare bits of the signature's last character are altered
\* decodes as the token itself does.
C14_AlteredContentIsNull ==
    \A b \in Browsers :
        cookie[b] # Null =>
            IF \E t \in Issued : SameParts(cookie[b], t)
            THEN \A t \in Issued : SameParts(cookie[b], t) =>
                    getSession(b) = decrypt(t, Instant(now))
            ELSE getSession(b) = Null

\* The client without the key has sent john_pm's token with the role changed
\* to admin and has been redirected to the login page, while the token
\* itself still verifies.
C14_Witness ==
    /\ last = Response("b0", "dashboard", 307, "", Null)
    /\ getSession("b1") # Null /\ getSession("b1").role = "staff"
    /\ cookie["b0"] = [cookie["b1"] EXCEPT !.claims.role = "admin"]

\* The ways a session cookie fails at instant i: none is sent; it is not a
\* JWS; its signature is not that of its header and claims under the key;
\* its exp has been reached.
NoToken(token) == token = Null
Malformed(token) == token # Null /\ "claims" \notin DOMAIN token
Mismatch(token) ==
    /\ token # Null /\ "claims" \in DOMAIN token
    /\ token.signature # Sign(key, token.header, token.claims)
Elapsed(token, i) ==
    /\ token # Null /\ "claims" \in DOMAIN token
    /\ token.claims.exp <= Epoch(i)
Fails(token, i) ==
    NoToken(token) \/ Malformed(token) \/ Mismatch(token) \/ Elapsed(token, i)

\* C15: for a cookie that is missing, malformed, wrongly signed or expired,
\* decrypt returns null (it does not hand on what jwtVerify throws) and so
\* does getSession; and each of the eleven protected requests sent with such
\* a cookie is answered as one sent with no session: 401 Unauthorized in its
\* first step, with users, tasks, reports and the requests in flight left as
\* they are.
C15_DecodeFailureIsNoSession ==
    /\ [](\A b \in Browsers :
            Fails(cookie[b], Instant(now)) =>
                /\ decrypt(cookie[b], Instant(now)) = Null
                /\ getSession(b) = Null)
    /\ [][/\ \A r \in Reqs, op \in StartOps : Started(r, op) =>
             \A b \in StartedBy(r, op) :
               (Fails(cookie[b], Instant(now)) /\ StartOf(op, r, b))
               => /\ last' = Unauthorized(b, op)
                  /\ UNCHANGED <<users, tasks, reports, req>>
          /\ \A op \in AtomicOps : last'.op = op =>
             \A b \in {last'.by} :
               (Fails(cookie[b], Instant(now)) /\ AtomicOf(op, b))
               => /\ last' = Unauthorized(b, op)
                  /\ UNCHANGED <<users, tasks, reports, req>>
         ]_vars

\* The client has sent a string that is not a JWS with a Submit and was
\* answered 401, after a report had been filed and a staff user added.
C15_Witness ==
    /\ last = Unauthorized("b0", "submit")
    /\ Malformed(cookie["b0"])
    /\ reports # {}
    /\ \E u \in users : u.username = "anna_cw"

\* C16: for every browser, a createSession(userId, username, role) leaves
\* getSession returning these three, whatever cookie the browser held before;
\* a deleteSession leaves getSession returning null, and with no cookie to
\* delete it changes nothing; neither touches another browser's cookie; and
\* every other step (a step that answers a request is one) leaves the cookie
\* as it is, getSession returning the same claims while the token's exp is
\* not reached and null from then on.
C16_LatestSessionWins ==
    [][/\ last' = NoResponse =>
          \A b \in Browsers :
             /\ \A u \in users :
                   createSession(b, u)
                   => /\ getSession(b)' # Null
                      /\ getSession(b)'.userId = u.id
                      /\ getSession(b)'.username = u.username
                      /\ getSession(b)'.role = u.role
                      /\ getSession(b)'.iat = now
                      /\ \A c \in Browsers \ {b} : cookie'[c] = cookie[c]
             /\ deleteSession(b)
                   => /\ getSession(b)' = Null
                      /\ cookie[b] = Null => cookie' = cookie
                      /\ \A c \in Browsers \ {b} : cookie'[c] = cookie[c]
                      /\ UNCHANGED <<users, tasks, reports, req>>
       /\ \A b \in Browsers :
             (\/ last' # NoResponse
              \/ (~deleteSession(b) /\ ~\E u \in users : createSession(b, u)))
             => /\ cookie'[b] = cookie[b]
                /\ getSession(b)' =
                     IF cookie[b] # Null /\ now' < cookie[b].claims.exp
                     THEN cookie[b].claims ELSE Null
      ]_vars

\* Browser b1 holds john_pm's token, issued after the first tick of the run,
\* and getSession returns his claims; b2 holds a token that has expired and
\* was redirected to the login page.
C16_Witness ==
    /\ last = Response("b2", "dashboard", 307, "", Null)
    /\ cookie["b2"] # Null /\ cookie["b2"].claims.exp <= now
    /\ getSession("b1") # Null /\ getSession("b1").username = "john_pm"
    /\ getSession("b1").iat > FirstNow - DayLen

\* C17: a token a client holds that verifies keeps verifying, with the same
\* claims, after every step that leaves the clock before the token's exp: a
\* deleteSession or createSession in that or another browser, and the update
\* or deletion of the token's user in the user table.
C17_TokenOutlivesLogoutAndUser ==
    [][\A b \in Browsers : \A token \in {cookie[b]} :
          (/\ decrypt(token, Instant(now)) # Null
           /\ now' < token.claims.exp)
          => /\ decrypt(token, Instant(now))' # Null
             /\ decrypt(token, Instant(now))' = decrypt(token, Instant(now))
             /\ decrypt(token, Instant(now))'.userId = token.claims.userId
             /\ decrypt(token, Instant(now))'.username = token.claims.username
             /\ decrypt(token, Instant(now))'.role = token.claims.role
      ]_vars

\* john_pm has logged out and his row has been deleted by the admin; the copy
\* of his token still decodes to his claims, and the dashboard was rendered
\* for it.
C17_Witness ==
    /\ last.by = "b0" /\ last.op = "dashboard" /\ last.status = 200
    /\ last.body.username = "john_pm"
    /\ cookie["b2"] = Null
    /\ ~\E u \in users : u.id = 2
    /\ getSession("b0") # Null /\ getSession("b0").userId = 2
    /\ getSession("b0").username = "john_pm" /\ getSession("b0").role = "staff"

\* C18: the write of a task update that answers 200 replaces, in the row it
\* names, the fields the request's body supplied among taskName, plan and
\* result, and leaves every field the body omitted, and id, userId and date,
\* as they were before the write; no other row changes.
C18_UpdateChangesOnlySupplied ==
    [][\A r \in Reqs, t \in tasks :
          (/\ Answered(r, "updateTask") /\ req[r].id = t.id
           /\ UpdateTaskWrite(r) /\ last'.status = 200)
          => LET body == req[r].body IN
             tasks' = (tasks \ {t}) \cup
                {[id |-> t.id, userId |-> t.userId, date |-> t.date,
                  taskName |-> IF body.taskName # Undefined THEN body.taskName
                               ELSE t.taskName,
                  plan |-> IF body.plan # Undefined THEN body.plan ELSE t.plan,
                  result |-> IF body.result # Undefined THEN body.result ELSE t.result]}
      ]_vars

\* An update of the plan has answered 200 while an update of the result,
\* which read the row before, is still to write: the data it holds carries
\* the plan it read, not the plan the row has now.
C18_Witness ==
    /\ last.op = "updateTask" /\ last.status = 200
    /\ \E r \in Reqs, t \in tasks :
          /\ req[r].op = "updateTask" /\ req[r].id = t.id
          /\ req[r].body.plan = Undefined /\ req[r].body.result = "done"
          /\ t.plan = "7" /\ req[r].data.plan = "5"

\* C19: with a session, POST /api/tasks answers 400 and leaves the task table
\* as it is when taskName is left out, null or empty; otherwise it answers 201
\* and adds exactly one row, under a new id, whose userId is the session's
\* userId, whose taskName is the one sent and whose plan and result are the
\* strings sent, or "" for one left out or sent as null: never null.
C19_CreateTaskValidatesAndDefaults ==
    [][\A b \in Browsers \cap {last'.by}, date \in AccessDates, body \in NullableTaskBodies :
          (/\ getSession(b) # Null
           /\ CreateTask(b, date, body.taskName, body.plan, body.result))
          => IF body.taskName \in {Undefined, JsonNull, ""}
             THEN last'.status = 400 /\ tasks' = tasks /\ nextTaskId' = nextTaskId
             ELSE /\ last'.status = 201
                  /\ Cardinality(tasks' \ tasks) = 1 /\ tasks \subseteq tasks'
                  /\ \A t \in tasks' \ tasks :
                        /\ \A old \in tasks : old.id # t.id
                        /\ t.userId = getSession(b).userId
                        /\ t.taskName = body.taskName
                        /\ t.plan = (IF body.plan \in {Undefined, JsonNull} THEN ""
                                     ELSE body.plan)
                        /\ t.result = (IF body.result \in {Undefined, JsonNull} THEN ""
                                       ELSE body.result)
                        /\ t.plan # JsonNull /\ t.result # JsonNull
      ]_vars

\* john_pm has created a task without a result and one with a null plan, both
\* stored with "" in that place, and a body with an empty name was then
\* refused.
C19_Witness ==
    /\ last.op = "createTask" /\ last.status = 400 /\ last.by = "b2"
    /\ \E t \in tasks : t.userId = 2 /\ t.plan = "5" /\ t.result = ""
    /\ \E t \in tasks : t.userId = 2 /\ t.plan = "" /\ t.result = ""
    /\ Cardinality(tasks) = 2

\* C20: GET /api/tasks with a staff session answers the tasks (of the day,
\* when a date is sent) whose userId is the session's userId, whatever userId
\* parameter is sent; with an admin session it answers the tasks of the user
\* the userId parameter names, and the tasks of all users when the parameter
\* is absent.
C20_ListTasksScope ==
    [][\A b \in Browsers \cap {last'.by}, date \in ListDates,
          userId \in {{}} \cup {{u} : u \in ListUserIds} :
          (/\ getSession(b) # Null
           /\ ListTasks(b, date, userId))
          => LET session == getSession(b)
                 rows == {last'.body[i] : i \in DOMAIN last'.body}
                 ofDay == {t \in tasks : date # NoDate =>
                             (/\ t.date >= ParseDate(date)
                              /\ t.date < ParseDate(date) + DayLen)} IN
             /\ last'.status = 200
             /\ Len(last'.body) = Cardinality(rows)
             /\ IF session.role = "staff"
                THEN rows = {t \in ofDay : t.userId = session.userId}
                ELSE IF userId = {}
                THEN rows = ofDay
                ELSE rows = {t \in ofDay : t.userId \in userId}
      ]_vars

\* The table holds tasks of the admin and of john_pm, and john_pm's list has
\* answered with his tasks alone.
C20_Witness ==
    /\ last.op = "listTasks" /\ last.status = 200 /\ last.by = "b2"
    /\ Len(last.body) >= 1
    /\ \A i \in DOMAIN last.body : last.body[i].userId = 2
    /\ \E t \in tasks : t.userId = 1
    /\ \E t \in tasks : t.userId = 2

\* C21: GET /api/reports with a staff session answers the caller's reports
\* (of the date, when one is sent) and no other, latest date first; with an
\* admin session it answers the reports of all users (of the date, when one
\* is sent), each with the id, username and position of its user and with
\* that user's tasks of the report's calendar day as they are now, latest
\* submission first.
C21_ReportQueryScopeAndOrder ==
    [][\A b \in Browsers \cap {last'.by}, date \in ReportListDates :
          (/\ getSession(b) # Null
           /\ ListReports(b, date))
          => LET session == getSession(b)
                 body == last'.body
                 ofDate == {q \in reports : date # NoDate =>
                              StartOfDay(q.date) = StartOfDay(ParseDate(date))} IN
             /\ last'.status = 200
             /\ IF session.role = "staff"
                THEN /\ {body[i] : i \in DOMAIN body}
                          = {q \in ofDate : q.userId = session.userId}
                     /\ Len(body) = Cardinality({body[i].id : i \in DOMAIN body})
                     /\ \A i, j \in DOMAIN body : i < j => body[i].date >= body[j].date
                ELSE /\ {body[i].id : i \in DOMAIN body} = {q.id : q \in ofDate}
                     /\ Len(body) = Cardinality(ofDate)
                     /\ \A i \in DOMAIN body : \E q \in ofDate, u \in users :
                           /\ q.id = body[i].id /\ u.id = q.userId
                           /\ body[i].userId = q.userId /\ body[i].date = q.date
                           /\ body[i].submittedAt = q.submittedAt
                           /\ body[i].user = {[id |-> u.id, username |-> u.username,
                                               position |-> u.position]}
                           /\ body[i].tasks =
                                {t \in tasks : /\ t.userId = q.userId
                                               /\ StartOfDay(t.date) = StartOfDay(q.date)}
                     /\ \A i, j \in DOMAIN body :
                           i < j => body[i].submittedAt >= body[j].submittedAt
      ]_vars

\* The admin's list has answered two reports, the admin's and john_pm's, the
\* later submission first and each with a task of its user.
C21_Witness ==
    /\ last.op = "listReports" /\ last.status = 200 /\ last.by = "b1"
    /\ Len(last.body) = 2
    /\ last.body[1].userId # last.body[2].userId
    /\ last.body[1].submittedAt > last.body[2].submittedAt
    /\ \A i \in DOMAIN last.body : last.body[i].tasks # {}

C23_SubmitAfterWithdrawIsFirstTime ==
    [][/\ \A r \in Reqs :
            (Started(r, "withdraw") \/ Answered(r, "withdraw"))
            => /\ tasks' = tasks /\ users' = users /\ nextReportId' = nextReportId
               /\ (Answered(r, "withdraw") /\ WithdrawDelete(r) /\ last'.status = 200)
                  => reports' = {p \in reports : p.id \notin req[r].existing}
       /\ \A r \in Reqs : Started(r, "submit") =>
            \A b \in StartedBy(r, "submit"), date \in {DateOnly(1)} :
              (/\ Valid(b, date) /\ WithinWindow(date)
               /\ TasksOn(Caller(b), date) # {}
               /\ nextReportId > 1 /\ ReportsOn(Caller(b), date) = {}
               /\ SubmitStart(r, b, date))
              => /\ req'[r].op = "submit" /\ req'[r].existing = {}
                 /\ req'[r].uid = Caller(b)
                 /\ req'[r].reportDate = StartOfDay(ParseDate(date)) + DayLen \div 2
       /\ \A r \in Reqs :
            (/\ Answered(r, "submit") /\ req[r].existing = {}
             /\ nextReportId > 1 /\ reports = {}
             /\ SubmitWrite(r))
            => /\ last'.status = 201
               /\ reports' = {[id |-> nextReportId, date |-> req[r].reportDate,
                               userId |-> req[r].uid, submitted |-> TRUE,
                               submittedAt |-> now, createdAt |-> now]}
               /\ \A p \in reports' : p.id >= nextReportId
      ]_vars

\* john_pm's first report was withdrawn at an earlier tick and his Submit
\* after it has answered 201: the only row is a new one, created now.
C23_Witness ==
    /\ last.op = "submit" /\ last.status = 201 /\ last.by = "b2"
    /\ nextReportId = 3
    /\ \E p \in reports : /\ reports = {p} /\ p.id = 2
                          /\ p.createdAt = now /\ p.submittedAt = now
    /\ now > FirstNow

\* C24: every DailyReport row of every reachable state has submitted = true
\* and a submittedAt that is a time, not null; and the rows of a (day, userId)
\* pair change in three ways only: from none to one by a Submit answered 201,
\* from one to the same row with a new submittedAt by a Submit answered 201,
\* and from one to none by a Withdraw answered 200.
C24_SubmissionIsBinary ==
    /\ [](\A p \in reports : p.submitted = TRUE /\ p.submittedAt \in 0..now)
    /\ [][\A uid \in {u.id : u \in users}, d \in {DayOf(p.date) : p \in reports \cup reports'} :
            LET before == {p \in reports : p.userId = uid /\ DayOf(p.date) = d}
                after == {p \in reports' : p.userId = uid /\ DayOf(p.date) = d} IN
            before # after =>
               \/ /\ before = {} /\ Cardinality(after) = 1
                  /\ last'.op = "submit" /\ last'.status = 201
               \/ /\ Cardinality(before) = 1 /\ Cardinality(after) = 1
                  /\ {p.id : p \in before} = {p.id : p \in after}
                  /\ last'.op = "submit" /\ last'.status = 201
               \/ /\ Cardinality(before) = 1 /\ after = {}
                  /\ last'.op = "withdraw" /\ last'.status = 200
         ]_vars

\* A report that was created, then submitted again at a later tick, is on
\* file, and the admin's report of the same day has just been withdrawn.
C24_Witness ==
    /\ last.op = "withdraw" /\ last.status = 200 /\ last.by = "b1"
    /\ nextReportId = 3
    /\ \E p \in reports : /\ reports = {p} /\ p.userId = 2 /\ p.submitted = TRUE
                          /\ p.submittedAt > p.createdAt

\* The deadline of the local day of instant t has passed; the rows that a
\* step creates or whose submittedAt it changes; the Submits in flight for a
\* user and a local day.
PastDeadline(t) == now > EndOfDay(t) + DayLen
Written == {p \in reports' : ~\E q \in reports : q.id = p.id /\ q.submittedAt = p.submittedAt}
InFlight(uid, d) ==
    {r \in Reqs : /\ req[r].op = "submit" /\ req[r].uid = uid
                  /\ DayOf(req[r].reportDate) = d}
LocalDays == {DayOf(ParseDate(s)) : s \in DateInputs \ {NoDate}}

\* The part of C25 on Withdraw: a Withdraw (valid session, date given) sent
\* when the deadline of the date has passed and the caller has a report on it
\* goes on to delete, and the delete of a row that is still there answers 200
\* and removes it, also past the row's deadline.
WithdrawIgnoresDeadline ==
    /\ \A r \in Reqs : Started(r, "withdraw") =>
          \A b \in StartedBy(r, "withdraw"), date \in DateInputs :
            (/\ Valid(b, date) /\ ~WithinWindow(date)
             /\ ReportsOn(Caller(b), date) # {}
             /\ WithdrawStart(r, b, date))
            => /\ req'[r].op = "withdraw"
               /\ req'[r].existing = {p.id : p \in ReportsOn(Caller(b), date)}
    /\ \A r \in Reqs, old \in reports :
          (/\ Answered(r, "withdraw") /\ old.id \in req[r].existing
           /\ PastDeadline(old.date)
           /\ WithdrawDelete(r))
          => last'.status = 200 /\ reports' = reports \ {old}

\* C25 as stated: Withdraw makes no deadline check, and in a state where the
\* deadline of a day has passed no step creates a report of that day or
\* changes the submittedAt of one.
C25_NothingWrittenPastDeadline ==
    [][/\ WithdrawIgnoresDeadline
       /\ \A p \in Written : ~PastDeadline(p.date)
      ]_vars

\* C25, amended: Withdraw makes no deadline check. A Submit sent once the
\* deadline of its date has passed is answered 400 and goes no further, so
\* past the deadline of a day a report of that day is created, or its
\* submittedAt changed, only by the write of a Submit that passed the check
\* before the deadline and was still in flight; and a (day, userId) pair that
\* has no report and no Submit in flight once its deadline has passed keeps
\* having none.
C25_NoSubmitStartsPastDeadline ==
    [][/\ WithdrawIgnoresDeadline
       /\ \A r \in Reqs : Started(r, "submit") =>
            \A b \in StartedBy(r, "submit"), date \in DateInputs :
              (Valid(b, date) /\ ~WithinWindow(date) /\ SubmitStart(r, b, date))
              => /\ last'.op = "submit" /\ last'.status = 400
                 /\ req' = req /\ reports' = reports
       /\ \A p \in Written :
            PastDeadline(p.date)
            => \E r \in InFlight(p.userId, DayOf(p.date)) :
                  /\ SubmitWrite(r) /\ last'.status = 201
                  /\ p.submittedAt = now
       /\ \A u \in users, d \in LocalDays :
            LET Settled(R, Q) ==
                  /\ ~\E p \in R : p.userId = u.id /\ DayOf(p.date) = d
                  /\ ~\E r \in Reqs : /\ Q[r].op = "submit" /\ Q[r].uid = u.id
                                      /\ DayOf(Q[r].reportDate) = d IN
            (now > d * DayLen - tz + (DayLen - 1) + DayLen /\ Settled(reports, req))
            => Settled(reports', req')
      ]_vars

\* On a server in UTC, after the deadline of day 0: john_pm's withdrawal has
\* answered 200 and of his two reports only the one of day 1 is left.
C25_Witness ==
    /\ tz = 0 /\ now > EndOfDay(ParseDate(DateOnly(0))) + DayLen
    /\ last.op = "withdraw" /\ last.status = 200 /\ last.by = "b2"
    /\ nextReportId = 3
    /\ \E p \in reports : reports = {p} /\ p.userId = 2 /\ DayOf(p.date) = 1

\* C26: a task update or delete by the owner or an admin goes on to its write
\* whether or not a report exists for the task's (day, userId) and whether or
\* not that day's deadline has passed; the write of a row that is still there
\* answers 200; and no step of a task update or delete changes a report, so
\* that a report can be left for a pair without tasks.
C26_TasksNotGatedByReport ==
    [][/\ \A r \in Reqs, op \in {"updateTask", "deleteTask"} : Started(r, op) =>
          \A b \in StartedBy(r, op), t \in tasks :
            (/\ getSession(b) # Null
             /\ getSession(b).role = "admin" \/ t.userId = getSession(b).userId
             /\ IF op = "updateTask" THEN UpdateTaskBy(r, b, t.id)
                ELSE DeleteTaskStart(r, b, t.id))
            => /\ req'[r].op = op /\ req'[r].id = t.id
               /\ reports' = reports
       /\ \A r \in Reqs, op \in {"updateTask", "deleteTask"} :
            (/\ Answered(r, op)
             /\ IF op = "updateTask" THEN UpdateTaskWrite(r) ELSE DeleteTaskWrite(r))
            => /\ reports' = reports
               /\ (\E t \in tasks : t.id = req[r].id) => last'.status = 200
      ]_vars

\* Past the deadline of day 0, john_pm's only task of day 0 has been deleted
\* (200) and his report of day 0 is still on file, with no task left for it.
C26_Witness ==
    /\ last.op = "deleteTask" /\ last.status = 200
    /\ now > EndOfDay(ParseDate(DateOnly(0))) + DayLen
    /\ \E p \in reports :
          /\ p.userId = 2 /\ DayOf(p.date) = 0
          /\ ~\E t \in tasks : t.userId = 2 /\ DayOf(t.date) = 0

\* What both readings of C27 share: no step changes, adds or removes a row
\* whose role is admin, no step changes the role of a row, and every row a
\* step adds has the role staff.
AdminsAreConstant ==
    /\ {u \in users : u.role # "staff"} = {u \in users' : u.role # "staff"}
    /\ \A u \in users, v \in users' : u.id = v.id => u.role = v.role
    /\ \A v \in users' : (\A u \in users : u.id # v.id) => v.role = "staff"

\* C27 as stated: the set of admin users is constant, and an update or a
\* delete sent by an admin for an existing user whose role is not staff is
\* answered 404 NotFound.
C27_NonStaffTargetIsNotFound ==
    [][/\ AdminsAreConstant
       /\ \A r \in Reqs, op \in {"updateStaff", "deleteStaff"} : Started(r, op) =>
            \A b \in StartedBy(r, op), u \in users, body \in StaffBodies :
              (/\ IsAdmin(getSession(b)) /\ u.role # "staff"
               /\ IF op = "updateStaff"
                  THEN UpdateStaffStart(r, b, u.id, body.username, body.password,
                                        body.position)
                  ELSE DeleteStaffStart(r, b, u.id))
              => /\ last'.op = op /\ last'.status = 404
                 /\ UNCHANGED <<users, req>>
      ]_vars

\* C27, amended: the set of admin users is constant; a delete sent by an
\* admin for an existing user whose role is not staff is answered 404
\* NotFound, and so is an update that carries a username and a position; an
\* update without one of them is answered 400 before the target is looked
\* up. Either way nothing is written.
C27_AdminsNeverChange ==
    [][/\ AdminsAreConstant
       /\ \A r \in Reqs, op \in {"updateStaff", "deleteStaff"} : Started(r, op) =>
            \A b \in StartedBy(r, op), u \in users, body \in StaffBodies :
              (/\ IsAdmin(getSession(b)) /\ u.role # "staff"
               /\ IF op = "updateStaff"
                  THEN UpdateStaffStart(r, b, u.id, body.username, body.password,
                                        body.position)
                  ELSE DeleteStaffStart(r, b, u.id))
              => /\ last'.op = op
                 /\ last'.status =
                      IF op = "updateStaff" /\ (body.username \in {Undefined, ""}
                                                \/ body.position \in {Undefined, ""})
                      THEN 400 ELSE 404
                 /\ UNCHANGED <<users, req>>
      ]_vars

\* The admin has added anna_cw and changed john_pm's position, and the update
\* of the admin's own row was then answered 404: the admin's row is as seeded.
C27_Witness ==
    /\ last.op = "updateStaff" /\ last.status = 404
    /\ \E u \in users : u.username = "anna_cw" /\ u.role = "staff"
    /\ \E u \in users : u.id = 2 /\ u.position = "media_buyer" /\ u.role = "staff"
    /\ \E u \in users : u.id = 1 /\ u.role = "admin" /\ u.username = "admin"

\* The rows of a step that lie outside the pair of user uid and local day d
\* are the same before and after it.
OthersUntouched(uid, d) ==
    \A p \in reports \cup reports' :
        (p.userId # uid \/ DayOf(p.date) # d) => (p \in reports /\ p \in reports')

\* C28: a Submit or Withdraw, whatever the caller's role, changes no task and
\* no user, and no report other than the caller's own of the local day of the
\* requested date: its first step writes nothing and records the caller and
\* that day, and its write leaves every report of another user or another
\* day as it was.
C28_OnlyOwnReportOfTheDay ==
    [][/\ \A r \in Reqs, op \in {"submit", "withdraw"} : Started(r, op) =>
          \A b \in StartedBy(r, op), date \in DateInputs :
            (/\ Valid(b, date)
             /\ IF op = "submit" THEN SubmitStart(r, b, date)
                ELSE WithdrawStart(r, b, date))
            => /\ UNCHANGED <<reports, tasks, users>>
               /\ req' # req =>
                    /\ req'[r].by = b
                    /\ op = "submit" =>
                         /\ req'[r].uid = Caller(b)
                         /\ DayOf(req'[r].reportDate) = DayOf(ParseDate(date))
                    /\ op = "withdraw" =>
                         DayOf(req'[r].range.start) = DayOf(ParseDate(date))
       /\ \A r \in Reqs :
            (Answered(r, "submit") /\ SubmitWrite(r))
            => /\ UNCHANGED <<tasks, users>>
               /\ req[r].uid = Caller(req[r].by)
               /\ OthersUntouched(req[r].uid, DayOf(req[r].reportDate))
       /\ \A r \in Reqs :
            (Answered(r, "withdraw") /\ WithdrawDelete(r))
            => /\ UNCHANGED <<tasks, users>>
               /\ OthersUntouched(Caller(req[r].by), DayOf(req[r].range.start))
      ]_vars

\* The admin has submitted again the report of a day for which john_pm's
\* report, submitted at an earlier tick, is on file as it was.
C28_Witness ==
    /\ last.op = "submit" /\ last.status = 201 /\ last.by = "b1"
    /\ \E p, q \in reports :
          /\ p.userId = 1 /\ q.userId = 2 /\ DayOf(p.date) = DayOf(q.date)
          /\ p.submittedAt = now /\ p.createdAt < now
          /\ q.submittedAt = q.createdAt /\ q.submittedAt < now

\* C29: when checkReportStatus completes for the selected date, with no other
\* request of the view or of the server in flight and the reports as they
\* were when the server answered, isSubmitted is true exactly when john_pm
\* has a submitted report of the selected day on file.
C29_FlagIsTheServersReport ==
    [][\A i \in Fetches :
         (/\ Settle(i)
          /\ fetches[i].op = "checkReportStatus"
          /\ fetches[i].date = view.selectedDate
          /\ Ok(fetches[i].response)
          /\ fetches[i].response = ReportList(Viewer, view.selectedDate)
          /\ \A j \in Fetches \ {i} : fetches[j] = Idle
          /\ \A r \in Reqs : req[r] = Idle)
         => (view'.isSubmitted <=>
               \E q \in ReportsOn(Caller(Viewer), view.selectedDate) : q.submitted)
      ]_vars

\* checkReportStatus has completed for the selected day, nothing is in
\* flight, and john_pm's submitted report of that day is on file.
C29_Witness ==
    /\ view # Unmounted
    /\ \A i \in Fetches : fetches[i] = Idle
    /\ \A r \in Reqs : req[r] = Idle
    /\ last = NoResponse
    /\ view.tasks # <<>>
    /\ \E q \in ReportsOn(Caller(Viewer), view.selectedDate) : q.submitted

\* C30: once every response of the view has arrived, whatever dates were
\* selected while requests were in flight, the task list shown is the
\* server's list of john_pm's tasks of the selected date and isSubmitted
\* tells whether his submitted report of that date is on file.
C30_ShowsTheSelectedDate ==
    (/\ view # Unmounted
     /\ \A i \in Fetches : fetches[i] = Idle
     /\ \A r \in Reqs : req[r] = Idle)
    => /\ view.tasks = TaskList(Viewer, view.selectedDate, {}).body
       /\ view.isSubmitted <=>
            \E q \in ReportsOn(Caller(Viewer), view.selectedDate) : q.submitted

\* Every response has arrived after john_pm moved from today to yesterday.
C30_Witness ==
    /\ view # Unmounted
    /\ view.selectedDate = DateOnly(0)
    /\ \A i \in Fetches : fetches[i] = Idle
    /\ last = NoResponse

====
